---------------------------- MODULE Spec2Model ----------------------------
(***************************************************************************)
(* A model of the cccm memory store (src/src/cccm/core): the index record  *)
(* with its MRU list of recent files and its capped event log, the         *)
(* configuration with its per-section merge over defaults, the snapshot    *)
(* directory with rotation, and the decisions document with duplicate      *)
(* suppression and pruning.                                                *)
(*                                                                         *)
(* Text is a sequence of one-character strings.  A path is a natural       *)
(* number standing for a distinct path string.  A dict is a function whose *)
(* DOMAIN is its key set.  Every operation is one action; the operation's  *)
(* result (or the fact that it raised) is left in `last`.                  *)
(***************************************************************************)
EXTENDS Integers, Sequences, FiniteSets, TLC

VARIABLES
    index,          \* the index dict held in memory by the running caller
    shared,         \* keys of `index` whose list object IS the list object of DEFAULT_INDEX
    DEFAULT_INDEX,  \* memory.py:29 module-level dict; its two lists are mutable objects
    idx_file,       \* content of .cccm/index.json
    cfg_file,       \* content of .cccm/config.json
    docs,           \* .cccm/memory/<name>: text, or Absent
    snaps,          \* .cccm/snapshots: file name -> content
    clock,          \* the UTC clock read by utc_timestamp()
    last,           \* the last operation performed: its name, arguments and result
    appended,       \* every event passed to append_event so far, in call order (history)
    steps           \* number of operations performed so far (bounds a run)

vars == <<index, shared, DEFAULT_INDEX, idx_file, cfg_file, docs, snaps, clock, last,
          appended, steps>>

---------------------------------------------------------------------------
(* Bounds of the model *)

\* paths 1..NumPaths may be passed to add_recent_file (more than the cap of 50)
NumPaths == 52
\* how many times a run of RecentSpec re-adds a path that is already listed
MaxReAdds == 1
\* how many append_event calls a run of EventsSpec makes (more than the cap of 200)
MaxAppends == 202
\* the first ChoiceWindow appended events choose kind and payload freely
ChoiceWindow == 3
\* digits of a formatted timestamp
TsWidth == 3
\* how many operations a run of LoadSpec performs
MaxSteps == 4
\* how many create_snapshot calls a run of SnapSpec makes
MaxCreates == 5
\* how many append_decision calls a run of DecisionsSpec makes
MaxDecisionCalls == 3
\* how many operations a run of StoreSpec performs
MaxStoreSteps == 2
\* the longest filler of a message of DetectSpec
MaxPad == 80

---------------------------------------------------------------------------
(* Python list and string primitives *)

Min(a, b) == IF a <= b THEN a ELSE b
Max(a, b) == IF a >= b THEN a ELSE b

\* seq[:n] for any integer n (a negative n counts from the end)
Take(seq, n) ==
    IF n >= 0 THEN SubSeq(seq, 1, Min(n, Len(seq)))
    ELSE SubSeq(seq, 1, Max(0, Len(seq) + n))

\* seq[-n:] for n > 0
LastN(seq, n) == SubSeq(seq, Max(1, Len(seq) - n + 1), Len(seq))

\* x in seq
InSeq(x, seq) == \E i \in 1..Len(seq) : seq[i] = x

\* list.remove(x): removes the FIRST occurrence of x (x is known to be in seq)
RemoveFirst(seq, x) ==
    LET i == CHOOSE k \in 1..Len(seq) : seq[k] = x /\ \A j \in 1..(k-1) : seq[j] # x
    IN  SubSeq(seq, 1, i-1) \o SubSeq(seq, i+1, Len(seq))

Elems(seq) == {seq[i] : i \in 1..Len(seq)}

NoDuplicates(seq) == Cardinality(Elems(seq)) = Len(seq)

\* dict.setdefault(k, d): the dict with k present
SetDefault(d, k, v) == IF k \in DOMAIN d THEN d ELSE d @@ (k :> v)

\* d with d[k] = v assigned
Assign(d, k, v) == [x \in DOMAIN d \cup {k} |-> IF x = k THEN v ELSE d[x]]

---------------------------------------------------------------------------
(* utc_timestamp: a fixed-width rendering of the clock, so that the text   *)
(* order of two timestamps is their time order                             *)

Digit == <<"0", "1", "2", "3", "4", "5", "6", "7", "8", "9">>

RECURSIVE Digits(_, _)
Digits(n, w) == IF w = 0 THEN << >> ELSE Digits(n \div 10, w - 1) \o <<Digit[(n % 10) + 1]>>

utc_timestamp == Digits(clock, TsWidth)

---------------------------------------------------------------------------
(* The index operations of memory.py *)

MaxRecentFiles == 50
max_events == 200

\* a plausible slip: the existing occurrence is not removed before the insert
add_recent_file_keep_old(idx, p) ==
    Assign(idx, "recent_files",
           Take(<<p>> \o SetDefault(idx, "recent_files", << >>)["recent_files"], 50))

\* a plausible slip: the oldest events are kept instead of the newest
append_event_keep_head(idx, e) ==
    Assign(idx, "events", Take(SetDefault(idx, "events", << >>)["events"] \o <<e>>, 200))

\* add_recent_file(index, file_path): the list object `recent` is mutated in
\* place (remove, insert), then index["recent_files"] is bound to a NEW list.
RecentAfterInsert(idx, p) ==
    LET recent == SetDefault(idx, "recent_files", << >>)["recent_files"]
        removed == IF InSeq(p, recent) THEN RemoveFirst(recent, p) ELSE recent
    IN  <<p>> \o removed

add_recent_file(idx, p) ==
    Assign(idx, "recent_files", Take(RecentAfterInsert(idx, p), MaxRecentFiles))

\* append_event(index, kind, payload): the list object `events` is mutated in
\* place (append); only when it grew past max_events is index["events"] bound
\* to a NEW list holding the last max_events.
EventsAfterAppend(idx, e) ==
    SetDefault(idx, "events", << >>)["events"] \o <<e>>

\* a plausible slip: the list is never cut
TrimEvents_unbounded(events) == events
TrimEvents(events) ==
    IF Len(events) > max_events THEN LastN(events, max_events) ELSE events

append_event(idx, e) ==
    Assign(idx, "events", TrimEvents(EventsAfterAppend(idx, e)))

Event(kind, payload) == [ts |-> utc_timestamp, kind |-> kind, payload |-> payload]

---------------------------------------------------------------------------
(* JSON values, tagged by type.  An object's v is a dict.                  *)

JNull == [t |-> "null"]
JBool(b) == [t |-> "bool", b |-> b]
JInt(n) == [t |-> "int", n |-> n]
JStr(x) == [t |-> "str", s |-> x]
JList(l) == [t |-> "list", l |-> l]
JObj(d) == [t |-> "obj", v |-> d]

EmptyDict == << >>

\* Python truth value of a JSON value (`if not idx`, `elif cfg_val`)
Truthy(j) ==
    CASE j.t = "null" -> FALSE
      [] j.t = "bool" -> j.b
      [] j.t = "int" -> j.n # 0
      [] j.t = "str" -> j.s # ""
      [] j.t = "list" -> Len(j.l) > 0
      [] j.t = "obj" -> DOMAIN j.v # {}

\* isinstance(x, dict)
IsDict(j) == j.t = "obj"

\* {**a, **b}
DictMerge(a, b) == [k \in DOMAIN a \cup DOMAIN b |-> IF k \in DOMAIN b THEN b[k] ELSE a[k]]

\* d.get(k, dflt)
Get(d, k, dflt) == IF k \in DOMAIN d THEN d[k] ELSE dflt

---------------------------------------------------------------------------
(* Files.  A JSON file is missing, unreadable (read_text raises something  *)
(* other than FileNotFoundError: no permission, bytes that are not UTF-8), *)
(* invalid (not JSON text), or holds a JSON value.                         *)

None == <<"<None>">>
Absent == <<"<absent>">>

Missing == [kind |-> "missing", value |-> JNull]
Unreadable == [kind |-> "unreadable", value |-> JNull]
Invalid == [kind |-> "invalid", value |-> JNull]
Json(j) == [kind |-> "json", value |-> j]

Returned(j) == [raised |-> FALSE, value |-> j]
Raised == [raised |-> TRUE, value |-> JNull]

\* load_json: only FileNotFoundError and JSONDecodeError are caught
load_json(file) ==
    CASE file.kind = "missing" -> Returned(JObj(EmptyDict))
      [] file.kind = "invalid" -> Returned(JObj(EmptyDict))
      [] file.kind = "unreadable" -> Raised
      [] file.kind = "json" -> Returned(file.value)

\* save_json followed by a later read: json.dumps/json.loads keep the value
save_json(j) == Json(j)

MEMORY_FILES == <<"decisions.md", "constraints.md", "interfaces.md", "glossary.md">>

\* f"# {title}\n\n" with title = name.replace(".md", "").title()
HeaderOf(name) ==
    CASE name = "decisions.md" ->
           <<"#", " ", "D", "e", "c", "i", "s", "i", "o", "n", "s", "\n", "\n">>
      [] name = "constraints.md" ->
           <<"#", " ", "C", "o", "n", "s", "t", "r", "a", "i", "n", "t", "s", "\n", "\n">>
      [] name = "interfaces.md" ->
           <<"#", " ", "I", "n", "t", "e", "r", "f", "a", "c", "e", "s", "\n", "\n">>
      [] name = "glossary.md" ->
           <<"#", " ", "G", "l", "o", "s", "s", "a", "r", "y", "\n", "\n">>

NoDocs == [n \in Elems(MEMORY_FILES) |-> Absent]
NoSnaps == {}

---------------------------------------------------------------------------
(* Configuration: memory.py DEFAULT_CONFIG and load_config *)

DEFAULT_CONFIG ==
    [version |-> JStr("0.2.0"),
     snapshot |-> JObj([max_chars_injected |-> JInt(6000),
                        max_snapshot_chars |-> JInt(25000),
                        max_snapshots |-> JInt(50)]),
     tracking |-> JObj([track_tools |-> JList(<<"Write", "Edit", "MultiEdit", "Bash">>),
                        track_decisions |-> JBool(TRUE)]),
     prompt_inject |-> JObj([max_chars |-> JInt(2000)]),
     agent_budgets |-> JObj(EmptyDict)]

Sections == {"snapshot", "tracking", "prompt_inject", "agent_budgets"}

\* a plausible slip: the persisted section replaces the default section
MergeSection_replace(default_val, cfg_val) ==
    IF Truthy(cfg_val) THEN cfg_val ELSE default_val

\* the body of the loop of load_config, for one section
MergeSection(default_val, cfg_val) ==
    IF IsDict(default_val) /\ IsDict(cfg_val)
    THEN JObj(DictMerge(default_val.v, cfg_val.v))
    ELSE IF Truthy(cfg_val) THEN cfg_val ELSE default_val

\* merged = {**DEFAULT_CONFIG}, then the loop over the four sections
Merged(cfg) ==
    [k \in DOMAIN DEFAULT_CONFIG |->
        IF k \in Sections
        THEN MergeSection(Get(DEFAULT_CONFIG, k, JObj(EmptyDict)), Get(cfg, k, JObj(EmptyDict)))
        ELSE DEFAULT_CONFIG[k]]

\* load_config: cfg.get raises AttributeError when cfg is not a dict
load_config(file) ==
    LET r == load_json(file) IN
    IF r.raised THEN Raised
    ELSE IF ~IsDict(r.value) THEN Raised
    ELSE Returned(JObj(Merged(r.value.v)))

---------------------------------------------------------------------------
(* Index: memory.py DEFAULT_INDEX, load_index, save_index *)

DefaultIndexValue == [version |-> 1, last_snapshot |-> None,
                      recent_files |-> << >>, events |-> << >>]

ListKeys == {"recent_files", "events"}

\* load_index: dict(DEFAULT_INDEX) is a shallow copy, so the copy's two lists
\* are the list objects of DEFAULT_INDEX itself (`aliases`)
load_index(file, dflt) ==
    LET r == load_json(file) IN
    IF r.raised THEN [raised |-> TRUE, value |-> JNull, aliases |-> {}]
    ELSE IF ~Truthy(r.value)
         THEN [raised |-> FALSE, value |-> JObj(dflt), aliases |-> ListKeys]
         ELSE [raised |-> FALSE, value |-> r.value, aliases |-> {}]

\* what append_event does to the module-level DEFAULT_INDEX and to the aliasing
DefaultAfterAppend(aliases, idx, e) ==
    IF "events" \in aliases
    THEN [DEFAULT_INDEX EXCEPT !.events = EventsAfterAppend(idx, e)]
    ELSE DEFAULT_INDEX

SharedAfterAppend(aliases, idx, e) ==
    IF Len(EventsAfterAppend(idx, e)) > max_events THEN aliases \ {"events"} ELSE aliases

\* what add_recent_file does to the module-level DEFAULT_INDEX and to the aliasing
DefaultAfterInsert(aliases, idx, p) ==
    IF "recent_files" \in aliases
    THEN [DEFAULT_INDEX EXCEPT !.recent_files = RecentAfterInsert(idx, p)]
    ELSE DEFAULT_INDEX

SharedAfterInsert(aliases) == aliases \ {"recent_files"}

---------------------------------------------------------------------------
(* RecentSpec: add_recent_file on an index that starts as {"recent_files": []} *)

Paths == 1..NumPaths

\* The paths a call may pass: the next path never used before (paths are
\* interchangeable, so first uses are numbered in order), or a listed path:
\* the one at the front, at the second place, in the middle or at the end.
ReAddCandidates(recent) ==
    {recent[i] : i \in {1, 2, (Len(recent) + 1) \div 2, Len(recent)} \cap (1..Len(recent))}

FreshRoot ==
    /\ idx_file = Missing
    /\ cfg_file = Missing
    /\ docs = NoDocs
    /\ snaps = NoSnaps

RecentInit ==
    /\ index = [recent_files |-> << >>]
    /\ shared = {}
    /\ DEFAULT_INDEX = DefaultIndexValue
    /\ FreshRoot
    /\ clock = 0
    /\ last = [op |-> "init", fresh |-> 0, readds |-> 0, calls |-> 0, used |-> << >>]
    /\ appended = << >>
    /\ steps = 0

AddFreshFile ==
    /\ last.fresh < NumPaths
    /\ LET p == last.fresh + 1 IN
       /\ index' = add_recent_file(index, p)
       /\ DEFAULT_INDEX' = DefaultAfterInsert(shared, index, p)
       /\ shared' = SharedAfterInsert(shared)
       /\ last' = [op |-> "add_recent_file", path |-> p, listed |-> FALSE,
                   before |-> index.recent_files,
                   fresh |-> p, readds |-> last.readds,
                   calls |-> last.calls + 1,
                   used |-> Append(last.used, last.calls + 1)]
    /\ steps' = steps + 1
    /\ UNCHANGED <<idx_file, cfg_file, docs, snaps, clock, appended>>

ReAddFile ==
    /\ last.readds < MaxReAdds
    /\ \E p \in ReAddCandidates(index.recent_files) :
       /\ index' = add_recent_file(index, p)
       /\ DEFAULT_INDEX' = DefaultAfterInsert(shared, index, p)
       /\ shared' = SharedAfterInsert(shared)
       /\ last' = [op |-> "add_recent_file", path |-> p, listed |-> TRUE,
                   before |-> index.recent_files,
                   fresh |-> last.fresh, readds |-> last.readds + 1,
                   calls |-> last.calls + 1,
                   used |-> [last.used EXCEPT ![p] = last.calls + 1]]
    /\ steps' = steps + 1
    /\ UNCHANGED <<idx_file, cfg_file, docs, snaps, clock, appended>>

RecentNext == AddFreshFile \/ ReAddFile

RecentSpec == RecentInit /\ [][RecentNext]_vars

---------------------------------------------------------------------------
(* EventsSpec: append_event on an index that starts as {"events": []} *)

Kinds == {"tool", "snapshot"}
Payloads == {0, 1}

EventInputs(n) == IF n < ChoiceWindow THEN Kinds \X Payloads ELSE {<<"tool", 0>>}

EventsInit ==
    /\ index = [events |-> << >>]
    /\ shared = {}
    /\ DEFAULT_INDEX = DefaultIndexValue
    /\ FreshRoot
    /\ clock = 0
    /\ last = [op |-> "init"]
    /\ appended = << >>
    /\ steps = 0

\* append_event(index, kind, payload) with (kind, payload) among `inputs`
AppendEventOf(inputs) ==
    /\ \E in \in inputs :
       LET e == Event(in[1], in[2]) IN
       /\ index' = append_event(index, e)
       /\ DEFAULT_INDEX' = DefaultAfterAppend(shared, index, e)
       /\ shared' = SharedAfterAppend(shared, index, e)
       /\ appended' = Append(appended, e)
       /\ last' = [op |-> "append_event", event |-> e]
    /\ clock' = clock + 1
    /\ steps' = steps + 1
    /\ UNCHANGED <<idx_file, cfg_file, docs, snaps>>

AppendEvent ==
    /\ Len(appended) < MaxAppends
    /\ AppendEventOf(EventInputs(Len(appended)))

EventsNext == AppendEvent

EventsSpec == EventsInit /\ [][EventsNext]_vars

---------------------------------------------------------------------------
(* Text helpers *)

Whitespace == {" ", "\n", "\t", "\r"}

\* str.lstrip() and str.rstrip()
LStrip(t) ==
    IF \A i \in 1..Len(t) : t[i] \in Whitespace THEN << >>
    ELSE SubSeq(t, CHOOSE i \in 1..Len(t) :
                       t[i] \notin Whitespace /\ \A j \in 1..(i - 1) : t[j] \in Whitespace,
                Len(t))

RStrip(t) ==
    IF \A i \in 1..Len(t) : t[i] \in Whitespace THEN << >>
    ELSE SubSeq(t, 1, CHOOSE i \in 1..Len(t) :
                          t[i] \notin Whitespace /\ \A j \in (i + 1)..Len(t) : t[j] \in Whitespace)

\* str.strip()
Strip(t) == RStrip(LStrip(t))

\* sep.join(parts)
RECURSIVE Join(_, _)
Join(parts, sep) ==
    IF Len(parts) = 0 THEN << >>
    ELSE IF Len(parts) = 1 THEN parts[1]
    ELSE LET half == Len(parts) \div 2
         IN  Join(SubSeq(parts, 1, half), sep) \o sep
                 \o Join(SubSeq(parts, half + 1, Len(parts)), sep)

\* text.startswith(prefix)
StartsWith(text, prefix) ==
    /\ Len(prefix) <= Len(text)
    /\ \A i \in 1..Len(prefix) : text[i] = prefix[i]

\* safe_read_text(path, limit): "" when the file is missing
safe_read_text(doc, limit) == IF doc = Absent THEN << >> ELSE Take(doc, limit)

\* the parts summarize_memory collects: every document whose trimmed text is
\* neither empty nor exactly its title line
RECURSIVE MemoryParts(_, _, _)
MemoryParts(d, names, max_chars) ==
    IF Len(names) = 0 THEN << >>
    ELSE LET txt == Strip(safe_read_text(d[names[1]], max_chars))
             rest == MemoryParts(d, Tail(names), max_chars)
         IN  IF txt # << >> /\ txt # Strip(HeaderOf(names[1])) THEN <<txt>> \o rest ELSE rest

MemorySeparator == <<"\n", "\n", "-", "-", "-", "\n", "\n">>

\* a plausible slip: the joined text is returned uncut
summarize_memory_uncut(d, max_chars) ==
    Join(MemoryParts(d, MEMORY_FILES, max_chars), MemorySeparator)
\* summarize_memory(root, max_chars)
summarize_memory(d, max_chars) ==
    Take(Join(MemoryParts(d, MEMORY_FILES, max_chars), MemorySeparator), max_chars)

---------------------------------------------------------------------------
(* Snapshots: snapshot.py.  The packet is text, character by character; a  *)
(* tracked path p is written as the letter f and two digits.               *)

PacketHeader ==
    <<"#", " ", "C", "C", "C", "M", " ", "C", "o", "n", "t", "i", "n", "u", "i", "t", "y",
      " ", "P", "a", "c", "k", "e", "t">>

\* the one element that stands for the em dash
EmDash == "<U+2014>"

SummaryBudget == 12000
RecentShown == 20
DefaultMaxSnapshotChars == 25000
DefaultMaxSnapshots == 50

\* str(p) for a tracked path
PathWidth == 2
PathText(p) == <<"f">> \o Digits(p, PathWidth)

\* str(root)
RootText == <<"/", "r", "e", "p", "o">>

\* the fixed phrases of the packet
TimestampLabel ==
    <<"-", " ", "T", "i", "m", "e", "s", "t", "a", "m", "p", " ", "(", "U",
      "T", "C", ")", ":", " ">>
SessionLabel == <<"-", " ", "S", "e", "s", "s", "i", "o", "n", ":", " ">>
ManualSession == <<"m", "a", "n", "u", "a", "l">>
CwdLabel == <<"-", " ", "C", "W", "D", ":", " ">>
TranscriptLabel ==
    <<"-", " ", "T", "r", "a", "n", "s", "c", "r", "i", "p", "t", ":", " ">>
PreserveLines ==
    << <<"#", "#", " ", "W", "h", "a", "t", " ", "t", "o", " ", "p", "r", "e",
      "s", "e", "r", "v", "e", " ", "t", "h", "r", "o", "u", "g", "h", " ",
      "c", "o", "m", "p", "a", "c", "t", "i", "o", "n">>,
       <<"-", " ", "C", "u", "r", "r", "e", "n", "t", " ", "o", "b", "j", "e",
      "c", "t", "i", "v", "e", " ", "a", "n", "d", " ", "n", "e", "x", "t",
      " ", "s", "t", "e", "p", "s", " ", "(", "f", "r", "o", "m", " ", "u",
      "s", "e", "r", " ", "p", "r", "o", "m", "p", "t", ")">>,
       <<"-", " ", "D", "e", "c", "i", "s", "i", "o", "n", "s", " ", "+", " ",
      "c", "o", "n", "s", "t", "r", "a", "i", "n", "t", "s", " ", "i", "n",
      " ", ".", "c", "c", "c", "m", "/", "m", "e", "m", "o", "r", "y", "/",
      "*">>,
       <<"-", " ", "I", "n", "t", "e", "r", "f", "a", "c", "e", "s", "/", "A",
      "P", "I", "s", " ", "n", "o", "t", "e", "d", " ", "i", "n", " ", "i",
      "n", "t", "e", "r", "f", "a", "c", "e", "s", ".", "m", "d">>,
       <<"-", " ", "R", "e", "c", "e", "n", "t", " ", "f", "i", "l", "e", "s",
      " ", "t", "o", "u", "c", "h", "e", "d", " ", "(", "b", "e", "l", "o",
      "w", ")">> >>
RecentHeading ==
    <<"#", "#", " ", "R", "e", "c", "e", "n", "t", " ", "f", "i", "l", "e",
      "s", " ", "t", "o", "u", "c", "h", "e", "d">>
NoneTracked ==
    <<"-", " ", "(", "n", "o", "n", "e", " ", "t", "r", "a", "c", "k", "e",
      "d", " ", "y", "e", "t", ")">>
MemoryHeading ==
    <<"#", "#", " ", "P", "r", "o", "j", "e", "c", "t", " ", "m", "e", "m",
      "o", "r", "y", " ", "(", "a", "u", "t", "h", "o", "r", "i", "t", "a",
      "t", "i", "v", "e", ")">>
MemoryEmpty ==
    <<"_", "(", "m", "e", "m", "o", "r", "y", " ", "d", "o", "c", "s", " ",
      "e", "m", "p", "t", "y", " ", EmDash, " ", "p", "o", "p", "u", "l", "a", "t", "e", " ", ".", "c", "c", "c",
      "m", "/", "m", "e", "m", "o", "r", "y", "/", "*", ".", "m", "d", ")",
      "_">>

\* a plausible slip: the files are listed last first
FileLines_reversed(files) ==
    [i \in 1..Len(files) |-> <<"-", " ">> \o PathText(files[Len(files) + 1 - i])]
\* "\n".join(f"- {p}" for p in recent_files), as lines
FileLines(files) == [i \in 1..Len(files) |-> <<"-", " ">> \o PathText(files[i])]

\* the list `lines` of build_snapshot_text
PacketLines(d, idx, hook, ts) ==
    LET recent_files == Take(Get(idx, "recent_files", << >>), RecentShown)
        mem_summary == summarize_memory(d, SummaryBudget)
    IN  <<PacketHeader,
          << >>,
          TimestampLabel \o ts,
          SessionLabel \o Get(hook, "session_id", ManualSession),
          CwdLabel \o Get(hook, "cwd", RootText)>>
        \o (IF Get(hook, "transcript_path", << >>) # << >>
            THEN <<TranscriptLabel \o hook["transcript_path"]>> ELSE << >>)
        \o << << >> >>
        \o PreserveLines
        \o << << >>, RecentHeading >>
        \o (IF Len(recent_files) > 0 THEN FileLines(recent_files) ELSE <<NoneTracked>>)
        \o << << >>,
              MemoryHeading,
              IF Len(mem_summary) > 0 THEN mem_summary ELSE MemoryEmpty >>

\* build_snapshot_text(root, index, hook_input)
build_snapshot_text(d, idx, hook, ts) == Join(PacketLines(d, idx, hook, ts), <<"\n">>)

\* str(snap_path.relative_to(root)) for the snapshot named by timestamp ts
RelPath(ts) == <<".cccm/snapshots/">> \o ts \o <<"_continuity.md">>

\* content[:max_chars] for the configured JSON value: an int or a bool is an
\* index, null is "no bound", anything else raises TypeError
CanSlice(j) == j.t \in {"int", "bool", "null"}
\* a plausible slip: the cut is one character short
Slice_short(content, j) ==
    CASE j.t = "int" -> Take(content, j.n - 1)
      [] j.t = "bool" -> Take(content, 0)
      [] j.t = "null" -> content
Slice(content, j) ==
    CASE j.t = "int" -> Take(content, j.n)
      [] j.t = "bool" -> Take(content, IF j.b THEN 1 ELSE 0)
      [] j.t = "null" -> content

\* len(files) <= max_keep for the configured JSON value: an int or a bool
\* compares, anything else raises TypeError
CanCompare(j) == j.t \in {"int", "bool"}
AsInt(j) == IF j.t = "int" THEN j.n ELSE IF j.b THEN 1 ELSE 0

\* order of two file names: text order of two names of equal length
CharRank(c) == CHOOSE i \in 1..Len(Digit) : Digit[i] = c
NameLess(a, b) ==
    \E i \in 1..Len(a) :
        /\ \A j \in 1..(i-1) : a[j] = b[j]
        /\ CharRank(a[i]) < CharRank(b[i])

\* sorted(snaps_dir.glob("*_continuity.md")), as the sequence of names
RECURSIVE SortedNames(_)
SortedNames(names) ==
    IF names = {} THEN << >>
    ELSE LET least == CHOOSE n \in names : \A m \in names \ {n} : NameLess(n, m)
         IN  <<least>> \o SortedNames(names \ {least})

\* a plausible slip: the newest files are deleted instead of the oldest
ToDelete_newest(dir, max_keep) ==
    LET files == SortedNames({f.name : f \in dir}) IN
    IF Len(files) <= max_keep THEN {} ELSE Elems(LastN(files, Len(files) - max_keep))

\* the names _prune_snapshots unlinks: files[: len(files) - max_keep]
ToDelete(dir, max_keep) ==
    LET files == SortedNames({f.name : f \in dir}) IN
    IF Len(files) <= max_keep THEN {} ELSE Elems(Take(files, Len(files) - max_keep))

\* _prune_snapshots(snaps_dir, max_keep)
prune_snapshots(dir, max_keep) == {f \in dir : f.name \notin ToDelete(dir, max_keep)}

\* snap_path.write_text(trimmed): a file of that name is replaced
WriteFile(dir, name, content) ==
    {f \in dir : f.name # name} \cup {[name |-> name, content |-> content]}

---------------------------------------------------------------------------
(* LoadSpec: one process that loads the configuration and the index of a   *)
(* root whose files hold arbitrary content, works on the loaded index and  *)
(* creates the structure                                                   *)

Omit == [t |-> "omit"]

SnapshotChoices ==
    {Omit, JInt(5), JObj(EmptyDict),
     JObj([max_chars_injected |-> JInt(3000)]),
     JObj([max_snapshots |-> JInt(3)]),
     JObj([max_snapshot_chars |-> JStr("long")]),
     JObj([max_snapshots |-> JInt(3), extra |-> JInt(1)])}

TrackingChoices == {Omit, JList(<< >>), JStr("all"), JObj([track_decisions |-> JBool(FALSE)])}

PromptChoices == {Omit, JBool(TRUE), JObj(EmptyDict)}

BudgetChoices == {Omit, JObj([Bash |-> JObj([max_output_lines |-> JInt(5)])])}

CustomChoices == {Omit, JStr("kept")}

\* the JSON object with the chosen members, the omitted ones left out
ConfigObject(sn, tr, pr, bu, cu) ==
    LET c == [snapshot |-> sn, tracking |-> tr, prompt_inject |-> pr,
              agent_budgets |-> bu, custom |-> cu]
    IN  JObj([k \in {x \in DOMAIN c : c[x].t # "omit"} |-> c[k]])

NonObjects ==
    {JNull, JBool(FALSE), JBool(TRUE), JInt(0), JInt(5), JStr(""), JStr("x"),
     JList(<< >>), JList(<<"a">>)}

ConfigContents ==
    {Missing, Unreadable, Invalid, Json(JObj(DEFAULT_CONFIG))}
    \cup {Json(j) : j \in NonObjects}
    \cup {Json(ConfigObject(sn, tr, pr, bu, cu)) :
            sn \in SnapshotChoices, tr \in TrackingChoices, pr \in PromptChoices,
            bu \in BudgetChoices, cu \in CustomChoices}

IndexContents ==
    {Missing, Unreadable, Invalid, Json(JObj(EmptyDict)), Json(JObj(DefaultIndexValue)),
     Json(JObj([version |-> 1, last_snapshot |-> None, recent_files |-> <<2, 1>>,
                events |-> << >>])),
     Json(JObj([recent_files |-> <<1>>]))}
    \cup {Json(j) : j \in NonObjects}

LoadInit ==
    /\ index = EmptyDict
    /\ shared = {}
    /\ DEFAULT_INDEX = DefaultIndexValue
    /\ \/ cfg_file \in ConfigContents /\ idx_file = Missing
       \/ cfg_file = Missing /\ idx_file \in IndexContents
    /\ docs = NoDocs
    /\ snaps = NoSnaps
    /\ clock = 0
    /\ last = [op |-> "init"]
    /\ appended = << >>
    /\ steps = 0

\* config = load_config(root)
LoadConfig ==
    /\ steps < MaxSteps
    /\ last' = [op |-> "load_config", file |-> cfg_file, result |-> load_config(cfg_file)]
    /\ steps' = steps + 1
    /\ UNCHANGED <<index, shared, DEFAULT_INDEX, idx_file, cfg_file, docs, snaps, clock,
                   appended>>

\* index = load_index(root); a caller can go on only with a dict
LoadIndex ==
    /\ steps < MaxSteps
    /\ LET r == load_index(idx_file, DEFAULT_INDEX)
           usable == ~r.raised /\ IsDict(r.value) IN
       /\ last' = [op |-> "load_index", file |-> idx_file,
                   result |-> [raised |-> r.raised, value |-> r.value],
                   by_default |-> r.aliases # {}]
       /\ index' = IF usable THEN r.value.v ELSE EmptyDict
       /\ shared' = IF usable THEN r.aliases ELSE {}
    /\ steps' = steps + 1
    /\ UNCHANGED <<DEFAULT_INDEX, idx_file, cfg_file, docs, snaps, clock, appended>>

\* append_event(index, kind, payload) on the loaded index
LoadedAppendEvent ==
    /\ steps < MaxSteps
    /\ index # EmptyDict
    /\ AppendEventOf({<<"tool", 0>>})

\* add_recent_file(index, path) on the loaded index
LoadedAddRecentFile ==
    /\ steps < MaxSteps
    /\ index # EmptyDict
    /\ \E p \in 1..2 :
       /\ index' = add_recent_file(index, p)
       /\ DEFAULT_INDEX' = DefaultAfterInsert(shared, index, p)
       /\ shared' = SharedAfterInsert(shared)
       /\ last' = [op |-> "add_recent_file", path |-> p]
    /\ steps' = steps + 1
    /\ UNCHANGED <<idx_file, cfg_file, docs, snaps, clock, appended>>

\* save_index(root, index)
SaveIndex ==
    /\ steps < MaxSteps
    /\ index # EmptyDict
    /\ idx_file' = save_json(JObj(index))
    /\ last' = [op |-> "save_index"]
    /\ steps' = steps + 1
    /\ UNCHANGED <<index, shared, DEFAULT_INDEX, cfg_file, docs, snaps, clock, appended>>

\* what ensure_dirs leaves on disk
\* a plausible slip: the title is written whether or not the file exists
EnsuredDocs_overwrite(d) == [n \in DOMAIN d |-> HeaderOf(n)]
\* ensure_dirs, for the documents, the configuration and the index it finds
EnsuredDocs(d) == [n \in DOMAIN d |-> IF d[n] = Absent THEN HeaderOf(n) ELSE d[n]]
EnsuredConfig(c) == IF c.kind = "missing" THEN save_json(JObj(DEFAULT_CONFIG)) ELSE c
EnsuredIndex(i, dflt) == IF i.kind = "missing" THEN save_json(JObj(dflt)) ELSE i

DocsEnsured == EnsuredDocs(docs)
ConfigEnsured == EnsuredConfig(cfg_file)
IndexEnsured == EnsuredIndex(idx_file, DEFAULT_INDEX)

\* ensure_dirs(root)
EnsureDirs ==
    /\ steps < MaxSteps
    /\ docs' = DocsEnsured
    /\ cfg_file' = ConfigEnsured
    /\ idx_file' = IndexEnsured
    /\ last' = [op |-> "ensure_dirs", wrote_index |-> idx_file.kind = "missing"]
    /\ steps' = steps + 1
    /\ UNCHANGED <<index, shared, DEFAULT_INDEX, snaps, clock, appended>>

LoadNext ==
    \/ LoadConfig
    \/ LoadIndex
    \/ LoadedAppendEvent
    \/ LoadedAddRecentFile
    \/ SaveIndex
    \/ EnsureDirs

LoadSpec == LoadInit /\ [][LoadNext]_vars

---------------------------------------------------------------------------
(* SnapSpec: create_snapshot, called again and again on a root that starts *)
(* with no snapshots, under a configuration fixed at the start             *)

MaxSnapshotsChoices == {Omit, JInt(-2), JInt(0), JInt(1), JInt(2), JInt(3), JStr("many")}

MaxCharsChoices == {Omit, JInt(-1), JInt(0), JInt(23), JInt(24), JInt(100), JNull, JStr("long")}

SnapshotSection(ms, mc) ==
    LET c == [max_snapshots |-> ms, max_snapshot_chars |-> mc]
    IN  JObj([k \in {x \in DOMAIN c : c[x].t # "omit"} |-> c[k]])

SnapConfigs ==
    {Missing, Json(JList(<< >>)), Json(JObj([snapshot |-> JInt(5)]))}
    \cup {Json(JObj([snapshot |-> SnapshotSection(ms, mc)])) :
            ms \in MaxSnapshotsChoices, mc \in MaxCharsChoices}

SnapIndexes ==
    {Missing, Invalid, Unreadable, Json(JObj(DefaultIndexValue)),
     Json(JObj([version |-> 1, last_snapshot |-> None, recent_files |-> <<2, 1>>,
                events |-> << >>]))}

SomeDocs ==
    [NoDocs EXCEPT !["decisions.md"] =
        HeaderOf("decisions.md") \o <<"-", " ", "U", "s", "e", " ", "R", "e", "d", "i", "s", "\n">>]

HookInputs ==
    {EmptyDict,
     [session_id |-> <<"a", "b", "c", "1", "2", "3">>, cwd |-> <<"/", "t", "m", "p", "/", "t", "e", "s", "t">>,
      transcript_path |-> <<"/", "t", "m", "p", "/", "t", ".", "j", "s", "o", "n">>]}

SnapInit ==
    /\ index = EmptyDict
    /\ shared = {}
    /\ DEFAULT_INDEX = DefaultIndexValue
    /\ cfg_file \in SnapConfigs
    /\ idx_file \in SnapIndexes
    /\ docs \in {NoDocs, SomeDocs}
    /\ snaps = NoSnaps
    /\ clock = 0
    /\ last = [op |-> "init", created |-> << >>]
    /\ appended = << >>
    /\ steps = 0

\* create_snapshot(root, hook_input) on a root holding documents d,
\* configuration c, index i and snapshots dir, in a process whose
\* DEFAULT_INDEX is dflt, with the clock at clk: load_index,
\* build_snapshot_text, then save_snapshot: ensure_dirs, load_config,
\* load_index, trim, write the file, update and save the index, prune.  An
\* exception ends the call where it is raised and leaves what was written
\* before it.  The clock is read three times (packet, file name, event) and
\* each reading is later than the one before; unlink succeeds (a failure is
\* swallowed and would leave the file).
create_snapshot(d, c, i, dir, dflt, clk, hook) ==
    LET r1 == load_index(i, dflt)
        built == ~r1.raised /\ IsDict(r1.value)
        text == build_snapshot_text(d, r1.value.v, hook, Digits(clk, TsWidth))
        cfg == load_config(EnsuredConfig(c))
        r2 == load_index(EnsuredIndex(i, dflt), dflt)
        section == Get(cfg.value.v, "snapshot", JObj(EmptyDict))
        max_chars == Get(section.v, "max_snapshot_chars", JInt(DefaultMaxSnapshotChars))
        trimmable == ~cfg.raised /\ IsDict(section) /\ CanSlice(max_chars)
        snap_name == Digits(clk + 1, TsWidth)
        rel_path == RelPath(snap_name)
        written == WriteFile(dir, snap_name, Slice(text, max_chars))
        e == [ts |-> Digits(clk + 2, TsWidth), kind |-> "snapshot",
              payload |-> [path |-> rel_path]]
        updated == Assign(r2.value.v, "last_snapshot", rel_path)
        max_snapshots == Get(section.v, "max_snapshots", JInt(DefaultMaxSnapshots))
    IN  IF ~built THEN
            [raised |-> TRUE, wrote |-> FALSE, name |-> << >>, path |-> << >>, text |-> << >>,
             docs |-> d, cfg |-> c, idx |-> i, snaps |-> dir, dflt |-> dflt, clock |-> clk]
        ELSE IF ~trimmable THEN
            [raised |-> TRUE, wrote |-> FALSE, name |-> << >>, path |-> << >>, text |-> << >>,
             docs |-> EnsuredDocs(d), cfg |-> EnsuredConfig(c), idx |-> EnsuredIndex(i, dflt),
             snaps |-> dir, dflt |-> dflt, clock |-> clk + 1]
        ELSE
            [raised |-> ~CanCompare(max_snapshots), wrote |-> TRUE,
             name |-> snap_name, path |-> rel_path, text |-> text,
             docs |-> EnsuredDocs(d), cfg |-> EnsuredConfig(c),
             idx |-> save_json(JObj(append_event(updated, e))),
             snaps |-> IF CanCompare(max_snapshots)
                       THEN prune_snapshots(written, AsInt(max_snapshots))
                       ELSE written,
             dflt |-> IF "events" \in r2.aliases
                      THEN [dflt EXCEPT !.events = EventsAfterAppend(updated, e)]
                      ELSE dflt,
             clock |-> clk + 3]

CreateSnapshot ==
    /\ steps < MaxCreates
    /\ \E hook \in HookInputs :
       \E r \in {create_snapshot(docs, cfg_file, idx_file, snaps, DEFAULT_INDEX, clock, hook)} :
           /\ last' = [op |-> "create_snapshot", raised |-> r.raised,
                       name |-> r.name, path |-> r.path,
                       created |-> IF r.wrote THEN Append(last.created, r.name)
                                   ELSE last.created]
           /\ docs' = r.docs
           /\ cfg_file' = r.cfg
           /\ idx_file' = r.idx
           /\ snaps' = r.snaps
           /\ DEFAULT_INDEX' = r.dflt
           /\ clock' = r.clock
    /\ steps' = steps + 1
    /\ UNCHANGED <<index, shared, appended>>

SnapNext == CreateSnapshot

SnapSpec == SnapInit /\ [][SnapNext]_vars

---------------------------------------------------------------------------
(* C1: starting from an empty recent_files list, after any sequence of     *)
(* add_recent_file calls the list has no duplicate paths, has at most 50   *)
(* entries and is ordered most-recently-added first: it holds the          *)
(* min(50, n) paths (of the n distinct paths passed so far) whose last     *)
(* call is the latest, in decreasing order of that call, so that the path  *)
(* of the last call is at position 0; re-adding a listed path leaves the   *)
(* length unchanged.  (last.used[p] is the number of the last call that    *)
(* passed p.)                                                              *)
C1_RecentFilesMRU ==
    LET recent == index.recent_files
        n == Len(recent) IN
    /\ NoDuplicates(recent)
    /\ n <= 50
    /\ n = Min(50, last.fresh)
    /\ \A i \in 1..n : recent[i] \in 1..last.fresh
    /\ \A i \in 1..(n-1) : last.used[recent[i]] > last.used[recent[i+1]]
    /\ \A p \in (1..last.fresh) \ Elems(recent) : last.used[p] < last.used[recent[n]]
    /\ last.op = "add_recent_file" =>
        /\ recent[1] = last.path
        /\ last.listed => n = Len(last.before)

\* a full list of 50 in which a listed path, not at the front, was re-added
C1_Witness ==
    /\ last.op = "add_recent_file"
    /\ last.listed
    /\ Len(last.before) = 50
    /\ last.before[1] # last.path
    /\ last.fresh > 50

---------------------------------------------------------------------------
(* C2: starting from an empty events list, after n append_event calls the  *)
(* events list holds exactly min(n, 200) entries: the last min(n, 200)     *)
(* appended events, in the order they were appended.                       *)
C2_EventsKeepNewest ==
    LET n == Len(appended)
        m == Min(n, 200) IN
    /\ Len(index.events) = m
    /\ \A i \in 1..m : index.events[i] = appended[n - m + i]

\* more than 200 events were appended, so the oldest ones have been dropped,
\* among them events of either kind
C2_Witness ==
    /\ Len(appended) = 202
    /\ appended[1].kind # appended[2].kind
    /\ index.events[1] = appended[3]

---------------------------------------------------------------------------
(* C7: load_index on a root whose index file is missing or corrupt returns *)
(* a fresh default index (version 1, last_snapshot null, empty             *)
(* recent_files, empty events) whatever happened earlier in the process,   *)
(* and the index file ensure_dirs writes on a fresh root holds that        *)
(* default too.                                                            *)
C7_DefaultIndexIsFresh ==
    /\ (last.op = "load_index" /\ last.by_default) =>
          last.result.value = JObj(DefaultIndexValue)
    /\ (last.op = "ensure_dirs" /\ last.wrote_index) =>
          idx_file = Json(JObj(DefaultIndexValue))

(* C8: load_config and load_index never raise: when the file is missing,   *)
(* unreadable, not valid JSON, or valid JSON that is not an object,        *)
(* load_config returns the built-in defaults and load_index returns the    *)
(* default index.                                                          *)
NotAnObject(file) ==
    \/ file.kind \in {"missing", "unreadable", "invalid"}
    \/ file.kind = "json" /\ ~IsDict(file.value)

C8_LoadsNeverRaise ==
    /\ (last.op = "load_config" /\ NotAnObject(last.file)) =>
          /\ ~last.result.raised
          /\ last.result.value = JObj(DEFAULT_CONFIG)
    /\ (last.op = "load_index" /\ NotAnObject(last.file)) =>
          /\ ~last.result.raised
          /\ last.result.value = JObj(DefaultIndexValue)

(* C9: load_config on a root with no config file returns exactly the       *)
(* built-in default configuration; when the persisted config overrides a   *)
(* single key of the snapshot section (and nothing else), the result has   *)
(* that key overridden while every other snapshot key and every other      *)
(* section equals its default.                                             *)
OverridesNothing(cfg, section) ==
    \/ section \notin DOMAIN cfg
    \/ IsDict(cfg[section]) /\ DOMAIN cfg[section].v = {}
    \/ ~IsDict(cfg[section]) /\ ~Truthy(cfg[section])

OverridesOneSnapshotKey(file) ==
    /\ file.kind = "json"
    /\ IsDict(file.value)
    /\ "snapshot" \in DOMAIN file.value.v
    /\ IsDict(file.value.v.snapshot)
    /\ Cardinality(DOMAIN file.value.v.snapshot.v) = 1
    /\ DOMAIN file.value.v.snapshot.v \subseteq DOMAIN DEFAULT_CONFIG.snapshot.v
    /\ \A section \in Sections \ {"snapshot"} : OverridesNothing(file.value.v, section)

C9_ConfigDefaultsAndOverride ==
    last.op = "load_config" =>
    /\ last.file.kind = "missing" => last.result = Returned(JObj(DEFAULT_CONFIG))
    /\ OverridesOneSnapshotKey(last.file) =>
         /\ ~last.result.raised
         /\ IsDict(last.result.value)
         /\ LET r == last.result.value.v
                given == last.file.value.v.snapshot.v
                dflt == DEFAULT_CONFIG.snapshot.v IN
            /\ DOMAIN r = DOMAIN DEFAULT_CONFIG
            /\ IsDict(r.snapshot)
            /\ DOMAIN r.snapshot.v = DOMAIN dflt
            /\ \A k \in DOMAIN dflt :
                  r.snapshot.v[k] = IF k \in DOMAIN given THEN given[k] ELSE dflt[k]
            /\ \A section \in DOMAIN DEFAULT_CONFIG \ {"snapshot"} :
                  r[section] = DEFAULT_CONFIG[section]

\* a config like the one of the test: one snapshot key overridden, tracking
\* present but empty of overrides
C9_Witness ==
    /\ last.op = "load_config"
    /\ OverridesOneSnapshotKey(last.file)
    /\ "tracking" \in DOMAIN last.file.value.v
    /\ "max_chars_injected" \in DOMAIN last.file.value.v.snapshot.v
    /\ last.result.value.v.snapshot.v.max_chars_injected = JInt(3000)

(* C10: for every persisted config that is a JSON object (or no file), the *)
(* record load_config returns holds, in each of the sections snapshot,     *)
(* tracking and prompt_inject, every key of that section's default.        *)
C10_SectionsComplete ==
    (last.op = "load_config" /\ ~last.result.raised) =>
        \A section \in {"snapshot", "tracking", "prompt_inject"} :
            LET got == last.result.value.v[section] IN
            /\ IsDict(got)
            /\ DOMAIN DEFAULT_CONFIG[section].v \subseteq DOMAIN got.v

---------------------------------------------------------------------------
(* Decisions: decisions.py.  The decisions document is text, character by  *)
(* character; the em dash of an entry's heading is the one element EmDash. *)

MAX_DECISIONS == 100
DedupeKeyLen == 100
DedupeReadLimit == 200000
PruneReadLimit == 500000

\* sub in text
Contains(sub, text) ==
    \E i \in 0..(Len(text) - Len(sub)) : SubSeq(text, i + 1, i + Len(sub)) = sub

\* f"\n## {timestamp} <em dash> Auto-captured\n\n{summary.strip()}\n"
AutoCaptured == <<" ", EmDash, " ">> \o <<"A", "u", "t", "o", "-", "c", "a", "p", "t", "u", "r", "e", "d">> \o <<"\n", "\n">>
Entry(ts, summary) == <<"\n", "#", "#", " ">> \o ts \o AutoCaptured \o Strip(summary) \o <<"\n">>

\* where re.split(r"(?=^## )", content, flags=re.MULTILINE) cuts: every "## "
\* at the start of the text or right after a newline
HeadingStarts(content) ==
    {i \in 1..(Len(content) - 2) :
        /\ SubSeq(content, i, i + 2) = <<"#", "#", " ">>
        /\ (i = 1 \/ content[i - 1] = "\n")}

\* _prune_decisions(path): the text of the file afterwards
prune_decisions(doc) ==
    LET content == safe_read_text(doc, PruneReadLimit)
        cuts == HeadingStarts(content)
    IN  IF Cardinality(cuts) <= MAX_DECISIONS THEN doc
        ELSE LET first == CHOOSE i \in cuts : \A j \in cuts : i <= j
                 kept == CHOOSE i \in cuts : Cardinality({j \in cuts : j >= i}) = MAX_DECISIONS
             IN  SubSeq(content, 1, first - 1) \o SubSeq(content, kept, Len(content))

\* the duplicate test of append_decision: summary.strip()[:100] in existing
AlreadyRecorded(doc, summary) ==
    Contains(Take(Strip(summary), DedupeKeyLen), safe_read_text(doc, DedupeReadLimit))

\* a plausible slip: the duplicate test is left out
append_decision_unchecked(doc, ts, summary) ==
    [returned |-> TRUE, doc |-> prune_decisions(doc \o Entry(ts, summary))]

\* append_decision(root, summary) on the decisions document left by
\* ensure_dirs: the value returned and the text of the file afterwards
append_decision(doc, ts, summary) ==
    IF AlreadyRecorded(doc, summary)
    THEN [returned |-> FALSE, doc |-> doc]
    ELSE [returned |-> TRUE, doc |-> prune_decisions(doc \o Entry(ts, summary))]

---------------------------------------------------------------------------
(* DecisionsSpec: append_decision called with summaries of several shapes  *)

\* t * n
Repeat(t, n) == [i \in 1..(n * Len(t)) |-> t[((i - 1) % Len(t)) + 1]]

\* a summary whose body holds MAX_DECISIONS lines that look like headings
HeadingLines == <<"a", "\n">> \o Repeat(<<"#", "#", " ", "\n">>, MAX_DECISIONS) \o <<"x">>

\* a decisions document that holds MAX_DECISIONS entries
FullDecisions ==
    HeaderOf("decisions.md") \o Repeat(<<"#", "#", " ", "e", "\n">>, MAX_DECISIONS)

Summaries ==
    {<<"U", "s", "e", " ", "R", "e", "d", "i", "s">>,
     <<" ", " ", "U", "s", "e", " ", "R", "e", "d", "i", "s", " ", "\n">>,
     <<"U", "s", "e", " ", "K", "a", "f", "k", "a">>,
     <<"a", "\n", "#", "#", " ", "b">>,
     <<"D", "e", "c", "i", "s", "i", "o", "n", "s">>,
     <<" ", " ">>,
     HeadingLines}

DecisionsInit ==
    /\ index = EmptyDict
    /\ shared = {}
    /\ DEFAULT_INDEX = DefaultIndexValue
    /\ cfg_file = Missing
    /\ idx_file = Missing
    /\ docs \in {NoDocs, SomeDocs, [NoDocs EXCEPT !["decisions.md"] = FullDecisions]}
    /\ snaps = NoSnaps
    /\ clock = 0
    /\ last = [op |-> "init"]
    /\ appended = << >>
    /\ steps = 0

\* append_decision(root, summary): ensure_dirs, the duplicate test, the
\* append and the prune.  `fresh` records whether the document of the store
\* the call started on held the summary's key; `before` is the document the
\* root held when the call began, `entry` the text the call would append and
\* `prev` the call before.
AppendDecision ==
    /\ steps < MaxDecisionCalls
    /\ \E summary \in Summaries :
       LET r == append_decision(DocsEnsured["decisions.md"], utc_timestamp, summary)
           after == [DocsEnsured EXCEPT !["decisions.md"] = r.doc]
       IN  /\ docs' = after
           /\ cfg_file' = ConfigEnsured
           /\ idx_file' = IndexEnsured
           /\ clock' = IF r.returned THEN clock + 1 ELSE clock
           /\ last' = [op |-> "append_decision",
                       summary |-> summary,
                       returned |-> r.returned,
                       fresh |-> ~AlreadyRecorded(docs["decisions.md"], summary),
                       before |-> docs["decisions.md"],
                       entry |-> Entry(utc_timestamp, summary),
                       index_before |-> idx_file,
                       wrote |-> (after # docs \/ ConfigEnsured # cfg_file
                                  \/ IndexEnsured # idx_file),
                       prev |-> IF last.op = "append_decision"
                                THEN [op |-> last.op, summary |-> last.summary,
                                      returned |-> last.returned, fresh |-> last.fresh]
                                ELSE [op |-> last.op]]
    /\ steps' = steps + 1
    /\ UNCHANGED <<index, shared, DEFAULT_INDEX, snaps, appended>>

DecisionsNext == AppendDecision

DecisionsSpec == DecisionsInit /\ [][DecisionsNext]_vars

---------------------------------------------------------------------------
(* Decision detection: decisions.py detect_decision.  A message is text,   *)
(* character by character.                                                 *)

MIN_MESSAGE_LENGTH == 80

UpperCase == <<"A", "B", "C", "D", "E", "F", "G", "H", "I", "J", "K", "L", "M",
               "N", "O", "P", "Q", "R", "S", "T", "U", "V", "W", "X", "Y", "Z">>
LowerCase == <<"a", "b", "c", "d", "e", "f", "g", "h", "i", "j", "k", "l", "m",
               "n", "o", "p", "q", "r", "s", "t", "u", "v", "w", "x", "y", "z">>

\* str.lower(), on ASCII letters
LowerChar(c) ==
    IF \E i \in 1..Len(UpperCase) : UpperCase[i] = c
    THEN LowerCase[CHOOSE i \in 1..Len(UpperCase) : UpperCase[i] = c]
    ELSE c
Lower(text) == [i \in 1..Len(text) |-> LowerChar(text[i])]

\* \w of a regular expression, on lowercased ASCII text
IsWordChar(c) == c \in Elems(LowerCase) \cup Elems(Digit) \cup {"_"}

\* \bword\b matches in text at position i
WordAt(text, i, word) ==
    /\ text[i] = word[1]
    /\ i + Len(word) - 1 <= Len(text)
    /\ SubSeq(text, i, i + Len(word) - 1) = word
    /\ (i = 1 \/ ~IsWordChar(text[i - 1]))
    /\ (i + Len(word) > Len(text) \/ ~IsWordChar(text[i + Len(word)]))

\* where a match of \b(?:w1|w2|...)\b starts, and where one ends
WordStarts(text, words) == {i \in 1..Len(text) : \E w \in words : WordAt(text, i, w)}
WordEnds(text, words) ==
    UNION {{i + Len(w) : i \in {k \in 1..Len(text) : WordAt(text, k, w)}} : w \in words}

\* re.search(r"\b(?:w1|w2|...)\b", text)
HasWord(text, words) == WordStarts(text, words) # {}

\* re.search(r"\b(?:a1|...)\b.*\b(?:b1|...)\b", text): '.' matches no newline
HasWordThenWord(text, firsts, seconds) ==
    \E e \in WordEnds(text, firsts) : \E j \in WordStarts(text, seconds) :
        /\ e <= j
        /\ \A k \in e..(j - 1) : text[k] # "\n"

\* the alternatives of DECISION_PATTERNS
DecisionVerbs ==
    {<<"d", "e", "c", "i", "d", "e", "d">>,
    <<"c", "h", "o", "o", "s", "i", "n", "g">>, <<"c", "h", "o", "s", "e">>,
    <<"s", "e", "l", "e", "c", "t", "e", "d">>,
    <<"g", "o", "i", "n", "g", " ", "w", "i", "t", "h">>,
    <<"p", "i", "c", "k", "e", "d">>,
    <<"o", "p", "t", "i", "n", "g", " ", "f", "o", "r">>,
    <<"w", "i", "l", "l", " ", "u", "s", "e">>,
    <<"s", "w", "i", "t", "c", "h", "e", "d", " ", "t", "o">>}
DecisionTopics ==
    {<<"a", "r", "c", "h", "i", "t", "e", "c", "t", "u", "r", "e">>,
    <<"d", "e", "s", "i", "g", "n", " ", "d", "e", "c", "i", "s", "i", "o", "n">>,
    <<"t", "r", "a", "d", "e", "o", "f", "f">>,
    <<"t", "r", "a", "d", "e", "-", "o", "f", "f">>,
    <<"a", "p", "p", "r", "o", "a", "c", "h">>}
DecisionPreferences ==
    {<<"i", "n", "s", "t", "e", "a", "d", " ", "o", "f">>,
    <<"r", "a", "t", "h", "e", "r", " ", "t", "h", "a", "n">>,
    <<"o", "v", "e", "r">>, <<"p", "r", "e", "f", "e", "r">>,
    <<"p", "r", "e", "f", "e", "r", "r", "e", "d">>}
DecisionReasons ==
    {<<"b", "e", "c", "a", "u", "s", "e">>, <<"s", "i", "n", "c", "e">>,
    <<"d", "u", "e", " ", "t", "o">>, <<"f", "o", "r">>}

MatchesDecisionPattern(message_lower) ==
    \/ HasWord(message_lower, DecisionVerbs)
    \/ HasWordThenWord(message_lower, DecisionTopics, DecisionReasons)
    \/ HasWordThenWord(message_lower, DecisionPreferences, DecisionReasons)

\* a plausible slip: the length test is left out
detect_decision_any_length(message) == MatchesDecisionPattern(Lower(message))

\* detect_decision(message)
detect_decision(message) ==
    IF Len(message) < MIN_MESSAGE_LENGTH THEN FALSE
    ELSE MatchesDecisionPattern(Lower(message))

---------------------------------------------------------------------------
(* DetectSpec: detect_decision applied to messages of every length around  *)
(* the threshold, with and without decision words                          *)

MessageHeads ==
    {<<"W", "e", " ", "d", "e", "c", "i", "d", "e", "d", " ", "t", "o", " ", "u", "s", "e", " ", "R", "e", "d", "i", "s">>,
    <<"u", "n", "d", "e", "c", "i", "d", "e", "d", " ", "a", "b", "o", "u", "t", " ", "i", "t">>,
    <<"T", "h", "e", " ", "a", "p", "p", "r", "o", "a", "c", "h", " ", "i", "s", " ", "f", "i", "n", "e", " ", "f", "o", "r", " ", "n", "o", "w">>,
    <<"T", "h", "e", " ", "a", "p", "p", "r", "o", "a", "c", "h", " ", "i", "s", " ", "f", "i", "n", "e", "\n", "f", "o", "r", " ", "n", "o", "w">>,
    <<"R", "e", "d", "i", "s", " ", "o", "v", "e", "r", " ", "M", "e", "m", "c", "a", "c", "h", "e", "d", " ", "s", "i", "n", "c", "e", " ", "T", "T", "L">>,
    <<"H", "e", "r", "e", " ", "i", "s", " ", "t", "h", "e", " ", "f", "u", "n", "c", "t", "i", "o", "n">>,
    <<"U", "s", "e", " ", "R", "e", "d", "i", "s", ".">>,
    <<"W", "I", "L", "L", " ", "U", "S", "E", " ", "k", "a", "f", "k", "a">>}

\* the head, then a blank and n filler characters
Padded(head, n) == head \o <<" ">> \o Repeat(<<"z">>, n)

Messages == MessageHeads \cup {Padded(h, n) : h \in MessageHeads, n \in 0..MaxPad}

DetectInit ==
    /\ index = EmptyDict
    /\ shared = {}
    /\ DEFAULT_INDEX = DefaultIndexValue
    /\ cfg_file = Missing
    /\ idx_file = Missing
    /\ docs = NoDocs
    /\ snaps = NoSnaps
    /\ clock = 0
    /\ \E message \in Messages : last = [op |-> "init", message |-> message]
    /\ appended = << >>
    /\ steps = 0

\* detect_decision(message) for the message drawn at the start
DetectDecision ==
    /\ last.op = "init"
    /\ last' = [op |-> "detect_decision", message |-> last.message,
                result |-> detect_decision(last.message)]
    /\ steps' = steps + 1
    /\ UNCHANGED <<index, shared, DEFAULT_INDEX, cfg_file, idx_file, docs, snaps, clock,
                   appended>>

DetectNext == DetectDecision

DetectSpec == DetectInit /\ [][DetectNext]_vars

---------------------------------------------------------------------------
(* Search: search.py *)

SearchReadLimit == 50000
LatestSnapshots == 3
RelevantTopK == 3
RelevanceThreshold == 2
MaxSnippet == 600
SnippetBefore == 3
SnippetAfter == 8

\* tokenize(text): the maximal runs of [a-z0-9_] in text.lower()
tokenize(text) ==
    LET t == Lower(text)
        starts == {i \in 1..Len(t) : IsWordChar(t[i]) /\ (i = 1 \/ ~IsWordChar(t[i - 1]))}
        EndOf(i) == CHOOSE j \in i..Len(t) :
                        /\ \A k \in i..j : IsWordChar(t[k])
                        /\ (j = Len(t) \/ ~IsWordChar(t[j + 1]))
    IN  {SubSeq(t, i, EndOf(i)) : i \in starts}

\* a plausible slip: a token counts only where it is a whole word
fast_score_whole_words(query_tokens, content_lower) ==
    Cardinality(query_tokens \cap tokenize(content_lower))
\* _fast_score(query_tokens, content_lower)
fast_score(query_tokens, content_lower) ==
    Cardinality({t \in query_tokens : Contains(t, content_lower)})

\* filename.lower().replace(".md", "")
DocStem(name) ==
    CASE name = "decisions.md" -> <<"d", "e", "c", "i", "s", "i", "o", "n", "s">>
      [] name = "constraints.md" -> <<"c", "o", "n", "s", "t", "r", "a", "i", "n", "t", "s">>
      [] name = "interfaces.md" -> <<"i", "n", "t", "e", "r", "f", "a", "c", "e", "s">>
      [] name = "glossary.md" -> <<"g", "l", "o", "s", "s", "a", "r", "y">>

\* _matches_tags(filename, tags)
matches_tags(filename, tags) ==
    \E i \in 1..Len(tags) : Contains(Lower(tags[i]), DocStem(filename))

\* f"memory/{name}" and f"snapshots/{snap.name}"
MemorySource(name) == <<"m", "e", "m", "o", "r", "y", "/">> \o DocStem(name) \o <<".", "m", "d">>
SnapshotFileName(ts) == ts \o <<"_", "c", "o", "n", "t", "i", "n", "u", "i", "t", "y", ".", "m", "d">>
SnapshotSource(ts) == <<"s", "n", "a", "p", "s", "h", "o", "t", "s", "/">> \o SnapshotFileName(ts)

\* the sources search_memory scans, in its order: the documents that pass the
\* tags (an empty list filters nothing, as None), then the three snapshots
\* with the greatest names, greatest first
ScannedSources(d, dir, tags) ==
    LET Passes(name) == Len(tags) = 0 \/ matches_tags(name, tags)
        names == SelectSeq(MEMORY_FILES, Passes)
        sorted == SortedNames({f.name : f \in dir})
        latest == [i \in 1..Min(LatestSnapshots, Len(sorted)) |-> sorted[Len(sorted) + 1 - i]]
        ContentOf(ts) == (CHOOSE f \in dir : f.name = ts).content
    IN  [i \in 1..Len(names) |->
            [source |-> MemorySource(names[i]),
             content |-> Strip(safe_read_text(d[names[i]], SearchReadLimit))]]
        \o [i \in 1..Len(latest) |->
            [source |-> SnapshotSource(latest[i]),
             content |-> Strip(safe_read_text(ContentOf(latest[i]), SearchReadLimit))]]

\* a plausible slip: the results are sorted by ascending score
RECURSIVE SortByScore_ascending(_)
SortByScore_ascending(results) ==
    IF Len(results) = 0 THEN << >>
    ELSE LET low == CHOOSE i \in 1..Len(results) :
                        /\ \A j \in 1..Len(results) : results[j].score >= results[i].score
                        /\ \A j \in 1..(i - 1) : results[j].score > results[i].score
         IN  <<results[low]>> \o
             SortByScore_ascending([k \in 1..(Len(results) - 1) |->
                                        IF k < low THEN results[k] ELSE results[k + 1]])

\* results.sort(key=score, reverse=True): a stable sort, equal scores keep
\* their order
RECURSIVE SortByScore(_)
SortByScore(results) ==
    IF Len(results) = 0 THEN << >>
    ELSE LET best == CHOOSE i \in 1..Len(results) :
                        /\ \A j \in 1..Len(results) : results[j].score <= results[i].score
                        /\ \A j \in 1..(i - 1) : results[j].score < results[i].score
         IN  <<results[best]>> \o
             SortByScore([k \in 1..(Len(results) - 1) |->
                              IF k < best THEN results[k] ELSE results[k + 1]])

\* search_memory(root, query, top_k, tags)
search_memory(d, dir, query, top_k, tags) ==
    LET query_tokens == tokenize(query)
        scanned == ScannedSources(d, dir, tags)
        scored == [i \in 1..Len(scanned) |->
                      [source |-> scanned[i].source, content |-> scanned[i].content,
                       score |-> fast_score(query_tokens, Lower(scanned[i].content))]]
        Scores(r) == r.content # << >> /\ r.score > 0
    IN  IF query_tokens = {} THEN << >>
        ELSE Take(SortByScore(SelectSeq(scored, Scores)), top_k)

\* content.split("\n")
\* the members of a set of positions, least first
Ascending(S) ==
    LET rank == [x \in S |-> Cardinality({y \in S : y < x})]
    IN  [k \in 1..Cardinality(S) |-> CHOOSE x \in S : rank[x] = k - 1]

\* text.split("\n"): the pieces between the line breaks
SplitLines(text) ==
    LET breaks == <<0>> \o Ascending({i \in 1..Len(text) : text[i] = "\n"})
                      \o <<Len(text) + 1>>
    IN  [k \in 1..(Len(breaks) - 1) |-> SubSeq(text, breaks[k] + 1, breaks[k + 1] - 1)]

\* _extract_snippet(content, query_tokens, max_snippet): the lines around the
\* first line with the highest score, or the head of the content
extract_snippet(content, query_tokens, max_snippet) ==
    LET lines == SplitLines(content)
        scores == [i \in 1..Len(lines) |-> fast_score(query_tokens, Lower(lines[i]))]
        top == CHOOSE n \in {scores[i] : i \in 1..Len(lines)} :
                   \A i \in 1..Len(lines) : scores[i] <= n
        hits == {i \in 1..Len(lines) : scores[i] = top}
        best == CHOOSE i \in hits : \A j \in hits : i <= j
    IN  IF top = 0 THEN Take(content, max_snippet)
        ELSE Take(Join(SubSeq(lines, Max(1, best - SnippetBefore),
                              Min(Len(lines), best + SnippetAfter - 1)), <<"\n">>),
                  max_snippet)

\* f"[{r['source']}]\n{snippet}"
RelevantEntry(r, query_tokens) ==
    <<"[">> \o r.source \o <<"]", "\n">> \o extract_snippet(r.content, query_tokens, MaxSnippet)

\* a plausible slip: an entry that does not fit is skipped and the loop goes on
RECURSIVE GreedyParts_skip(_, _, _)
GreedyParts_skip(entries, chars, max_chars) ==
    IF Len(entries) = 0 THEN << >>
    ELSE IF chars + Len(entries[1]) > max_chars
    THEN GreedyParts_skip(Tail(entries), chars, max_chars)
    ELSE <<entries[1]>> \o GreedyParts_skip(Tail(entries), chars + Len(entries[1]), max_chars)

\* the loop of find_relevant_memory: entries are taken while the sum of their
\* lengths stays within max_chars
RECURSIVE GreedyParts(_, _, _)
GreedyParts(entries, chars, max_chars) ==
    IF Len(entries) = 0 THEN << >>
    ELSE IF chars + Len(entries[1]) > max_chars THEN << >>
    ELSE <<entries[1]>> \o GreedyParts(Tail(entries), chars + Len(entries[1]), max_chars)

\* a plausible slip: one keyword match is enough
Relevant_any(results) ==
    LET Passes(r) == r.score >= 1 IN SelectSeq(results, Passes)
\* relevant = [r for r in results if r["score"] >= threshold]
Relevant(results) ==
    LET Passes(r) == r.score >= RelevanceThreshold IN SelectSeq(results, Passes)

\* find_relevant_memory(root, prompt, max_chars)
find_relevant_memory(d, dir, prompt, max_chars) ==
    LET relevant == Relevant(search_memory(d, dir, prompt, RelevantTopK, << >>))
        query_tokens == tokenize(prompt)
        entries == [i \in 1..Len(relevant) |-> RelevantEntry(relevant[i], query_tokens)]
    IN  Join(GreedyParts(entries, 0, max_chars), <<"\n", "\n">>)

---------------------------------------------------------------------------
(* SearchSpec: search_memory and find_relevant_memory on stores with and   *)
(* without documents and snapshots                                         *)

SearchedDocs ==
    [NoDocs EXCEPT
       !["decisions.md"] =
        <<"#", " ", "D", "e", "c", "i", "s", "i", "o", "n", "s", "\n", "\n",
        "U", "s", "e", " ", "R", "e", "d", "i", "s", " ", "f", "o", "r", " ",
        "c", "a", "c", "h", "i", "n", "g", "\n">>,
       !["constraints.md"] =
        <<"#", " ", "C", "o", "n", "s", "t", "r", "a", "i", "n", "t", "s",
        "\n", "\n", "R", "e", "d", "i", "s", " ", "c", "a", "c", "h", "i",
        "n", "g", " ", "T", "T", "L", " ", "6", "0", "\n">>,
       !["glossary.md"] = HeaderOf("glossary.md")]

\* four snapshot files: the oldest is never scanned, one is empty
SearchedSnaps ==
    {[name |-> Digits(1, TsWidth), content |-> <<"o", "l", "d", " ", "r", "e", "d", "i", "s", " ", "c", "a", "c", "h",
        "i", "n", "g", " ", "t", "t", "l">>],
     [name |-> Digits(2, TsWidth), content |-> << >>],
     [name |-> Digits(3, TsWidth), content |-> PacketHeader \o <<"\n", "r", "e", "d", "i", "s">>],
     [name |-> Digits(4, TsWidth),
      content |-> <<"J", "W", "T", " ", "t", "o", "k", "e", "n", "s", "\n", "R", "E",
        "D", "I", "S", " ", "c", "a", "c", "h", "i", "n", "g">>]}

Queries ==
    {<< >>, <<"!", "!", "!">>, <<"x", "y", "z", "z", "y">>,
     <<"r", "e", "d", "i", "s">>,
     <<"R", "e", "d", "i", "s", " ", "c", "a", "c", "h", "i", "n", "g">>,
     <<"r", "e", "d", "i", "s", " ", "c", "a", "c", "h", "i", "n", "g", " ",
        "t", "t", "l", " ", "j", "w", "t">>,
     <<"d", "e", "c", "i", "s", "i", "o", "n", "s">>,
     <<"r", "e", "d", "i", "s", " ", "c", "a", "c", "h", " ", "t", "o", "k", "e", "n">>}

TopKs == {-1, 0, 1, 2, 3, 5}

TagLists ==
    {<< >>, <<<<"d", "e", "c", "i", "s", "i", "o", "n", "s">>>>,
     <<<<"D", "E", "C">>, <<"x">>>>, << << >> >>, <<<<"z", "z", "z">>>>}

MaxCharsInputs == {0, 55, 56, 114, 115, 116, 117, 168, 169, 170, 173, 2000}

SearchInit ==
    /\ index = EmptyDict
    /\ shared = {}
    /\ DEFAULT_INDEX = DefaultIndexValue
    /\ cfg_file = Missing
    /\ idx_file = Missing
    /\ docs \in {NoDocs, EnsuredDocs(NoDocs), SearchedDocs}
    /\ snaps \in {NoSnaps, SearchedSnaps}
    /\ clock = 0
    /\ \/ \E query \in Queries, top_k \in TopKs, tags \in TagLists :
             last = [op |-> "init", fn |-> "search_memory", query |-> query,
                     top_k |-> top_k, tags |-> tags]
       \/ \E prompt \in Queries, max_chars \in MaxCharsInputs :
             last = [op |-> "init", fn |-> "find_relevant_memory", prompt |-> prompt,
                     max_chars |-> max_chars]
    /\ appended = << >>
    /\ steps = 0

SearchFrame ==
    UNCHANGED <<index, shared, DEFAULT_INDEX, cfg_file, idx_file, docs, snaps, clock, appended>>

\* the call drawn at the start is made
SearchMemory ==
    /\ last.op = "init"
    /\ last.fn = "search_memory"
    /\ last' = [op |-> "search_memory", query |-> last.query, top_k |-> last.top_k,
                tags |-> last.tags,
                results |-> search_memory(docs, snaps, last.query, last.top_k, last.tags)]
    /\ steps' = steps + 1
    /\ SearchFrame

FindRelevantMemory ==
    /\ last.op = "init"
    /\ last.fn = "find_relevant_memory"
    /\ last' = [op |-> "find_relevant_memory", prompt |-> last.prompt,
                max_chars |-> last.max_chars,
                output |-> find_relevant_memory(docs, snaps, last.prompt, last.max_chars)]
    /\ steps' = steps + 1
    /\ SearchFrame

SearchNext == SearchMemory \/ FindRelevantMemory

SearchSpec == SearchInit /\ [][SearchNext]_vars

---------------------------------------------------------------------------
(* The MCP tool memory_write: mcp_server.py *)

valid_types == <<"decisions", "constraints", "interfaces", "glossary">>

\* f"{doc_type}.md" for a valid doc_type
DocFile(doc_type) ==
    CASE doc_type = "decisions" -> "decisions.md"
      [] doc_type = "constraints" -> "constraints.md"
      [] doc_type = "interfaces" -> "interfaces.md"
      [] doc_type = "glossary" -> "glossary.md"

\* f"\n## {timestamp}\n\n{content.strip()}\n"
WrittenEntry(ts, content) ==
    <<"\n", "#", "#", " ">> \o ts \o <<"\n", "\n">> \o Strip(content) \o <<"\n">>

\* a plausible slip: the document is rewritten instead of appended to
AppendTo_rewrite(d, name, entry) == [d EXCEPT ![name] = HeaderOf(name) \o entry]
\* with open(mem_path, "a") as f: f.write(entry)
AppendTo(d, name, entry) == [d EXCEPT ![name] = (IF @ = Absent THEN << >> ELSE @) \o entry]

\* memory_write(doc_type, content) on a root holding documents d,
\* configuration c and index i: ensure_dirs comes before the validation
memory_write(d, c, i, dflt, clk, doc_type, content) ==
    IF ~InSeq(doc_type, valid_types)
    THEN [returned |-> "Invalid doc_type", docs |-> EnsuredDocs(d), cfg |-> EnsuredConfig(c),
          idx |-> EnsuredIndex(i, dflt), clock |-> clk]
    ELSE [returned |-> "Appended",
          docs |-> AppendTo(EnsuredDocs(d), DocFile(doc_type),
                            WrittenEntry(Digits(clk, TsWidth), content)),
          cfg |-> EnsuredConfig(c), idx |-> EnsuredIndex(i, dflt), clock |-> clk + 1]

---------------------------------------------------------------------------
(* StoreSpec: the operations that write under .cccm, each run as a process *)
(* of its own on a root in one of several states                           *)

GlossaryDocs ==
    [NoDocs EXCEPT !["glossary.md"] = <<"t", "e", "r", "m", "s">>, !["interfaces.md"] = << >>]
FilledDocs == [SomeDocs EXCEPT !["decisions.md"] = FullDecisions]

StoredIndex ==
    Json(JObj([version |-> 1, last_snapshot |-> None, recent_files |-> <<2, 1>>,
               events |-> << >>]))
CustomConfig == Json(JObj([custom |-> JStr("kept")]))

\* the roots a run of StoreSpec starts on: fresh; set up and written to;
\* with files removed, emptied or made invalid by hand
StoreRoots ==
    {[docs |-> NoDocs, cfg |-> Missing, idx |-> Missing],
     [docs |-> SomeDocs, cfg |-> Invalid, idx |-> StoredIndex],
     [docs |-> GlossaryDocs, cfg |-> CustomConfig, idx |-> Missing],
     [docs |-> GlossaryDocs, cfg |-> Invalid, idx |-> Invalid],
     [docs |-> FilledDocs, cfg |-> CustomConfig, idx |-> StoredIndex]}

StoreInit ==
    /\ index = EmptyDict
    /\ shared = {}
    /\ DEFAULT_INDEX = DefaultIndexValue
    /\ \E root \in StoreRoots :
          /\ cfg_file = root.cfg
          /\ idx_file = root.idx
          /\ docs = root.docs
    /\ snaps = NoSnaps
    /\ clock = 0
    /\ last = [op |-> "init"]
    /\ appended = << >>
    /\ steps = 0

\* what no operation of StoreSpec touches: the in-process index of the other
\* specifications, and DEFAULT_INDEX, which every new process finds as defined
StoreFrame == UNCHANGED <<index, shared, DEFAULT_INDEX, appended>>

\* ensure_dirs(root)
StoreEnsureDirs ==
    /\ steps < MaxStoreSteps
    /\ docs' = DocsEnsured
    /\ cfg_file' = ConfigEnsured
    /\ idx_file' = IndexEnsured
    /\ last' = [op |-> "ensure_dirs", prev |-> last.op]
    /\ steps' = steps + 1
    /\ UNCHANGED <<snaps, clock>>
    /\ StoreFrame

DocTypes == {"decisions", "glossary", "notes", "Decisions"}
Contents == {<<" ", "#", "#", " ", "n", "o", "t", "e", "\n">>}

\* the MCP tool memory_write(doc_type, content)
MemoryWrite ==
    /\ steps < MaxStoreSteps
    /\ \E doc_type \in DocTypes, content \in Contents :
       \E r \in {memory_write(docs, cfg_file, idx_file, DEFAULT_INDEX, clock, doc_type, content)} :
           /\ docs' = r.docs
           /\ cfg_file' = r.cfg
           /\ idx_file' = r.idx
           /\ clock' = r.clock
           /\ last' = [op |-> "memory_write", prev |-> last.op, doc_type |-> doc_type,
                       returned |-> r.returned,
                       changed |-> (r.docs # docs \/ r.cfg # cfg_file \/ r.idx # idx_file)]
    /\ steps' = steps + 1
    /\ UNCHANGED snaps
    /\ StoreFrame

StoreSummaries ==
    {<<"U", "s", "e", " ", "R", "e", "d", "i", "s">>, <<"U", "s", "e", " ", "K", "a", "f", "k", "a">>}

\* append_decision(root, summary)
StoreAppendDecision ==
    /\ steps < MaxStoreSteps
    /\ \E summary \in StoreSummaries :
       \E r \in {append_decision(DocsEnsured["decisions.md"], utc_timestamp, summary)} :
           /\ docs' = [DocsEnsured EXCEPT !["decisions.md"] = r.doc]
           /\ clock' = IF r.returned THEN clock + 1 ELSE clock
           /\ last' = [op |-> "append_decision", prev |-> last.op, returned |-> r.returned,
                       pruned |-> r.returned /\
                           Cardinality(HeadingStarts(DocsEnsured["decisions.md"]
                                       \o Entry(utc_timestamp, summary))) > MAX_DECISIONS]
    /\ cfg_file' = ConfigEnsured
    /\ idx_file' = IndexEnsured
    /\ steps' = steps + 1
    /\ UNCHANGED snaps
    /\ StoreFrame

\* create_snapshot(root), as the command line runs it
StoreCreateSnapshot ==
    /\ steps < MaxStoreSteps
    /\ \E r \in {create_snapshot(docs, cfg_file, idx_file, snaps, DEFAULT_INDEX, clock,
                                 EmptyDict)} :
           /\ docs' = r.docs
           /\ cfg_file' = r.cfg
           /\ idx_file' = r.idx
           /\ snaps' = r.snaps
           /\ clock' = r.clock
           /\ last' = [op |-> "create_snapshot", prev |-> last.op, raised |-> r.raised]
    /\ steps' = steps + 1
    /\ StoreFrame

---------------------------------------------------------------------------
(* The post_tool_use handler: hooks/runner.py *)

DEFAULT_TRACKED_TOOLS == {"Write", "Edit", "MultiEdit", "Bash"}
FILE_PATH_KEYS == <<"file_path", "path", "filepath", "target", "filename">>

\* a non-empty string that names the tracked path p
PathStr(p) == [t |-> "path", p |-> p]
\* isinstance(val, str) and val
IsPathStr(val) == val.t = "path"

\* the first of FILE_PATH_KEYS whose value in the dict is a non-empty string
FirstPathKey(dict) ==
    LET hits == {i \in 1..Len(FILE_PATH_KEYS) :
                    /\ FILE_PATH_KEYS[i] \in DOMAIN dict
                    /\ IsPathStr(dict[FILE_PATH_KEYS[i]])}
    IN  IF hits = {} THEN 0 ELSE CHOOSE i \in hits : \A j \in hits : i <= j

\* the first of "files", "edits" whose value is a non-empty list that starts
\* with a dict holding a path
FirstListPath(dict) ==
    LET list_keys == <<"files", "edits">>
        Holds(k) == /\ k \in DOMAIN dict
                    /\ dict[k].t = "list"
                    /\ Len(dict[k].l) > 0
                    /\ IsDict(dict[k].l[1])
                    /\ FirstPathKey(dict[k].l[1].v) # 0
        hits == {i \in 1..Len(list_keys) : Holds(list_keys[i])}
    IN  IF hits = {} THEN JNull
        ELSE LET k == list_keys[CHOOSE i \in hits : \A j \in hits : i <= j]
             IN  dict[k].l[1].v[FILE_PATH_KEYS[FirstPathKey(dict[k].l[1].v)]]

\* _extract_file_path(tool_input): the path, or JNull for None
extract_file_path(tool_input) ==
    IF ~IsDict(tool_input) THEN JNull
    ELSE IF FirstPathKey(tool_input.v) # 0
    THEN tool_input.v[FILE_PATH_KEYS[FirstPathKey(tool_input.v)]]
    ELSE FirstListPath(tool_input.v)

\* a plausible slip: the event is not appended
tracked_no_event(idx, tool_name, file_path, ts) == add_recent_file(idx, file_path)
\* add_recent_file(index, file_path); append_event(index, "tool", {...})
tracked(idx, tool_name, file_path, ts) ==
    append_event(add_recent_file(idx, file_path),
                 [ts |-> ts, kind |-> "tool",
                  payload |-> [tool_name |-> tool_name, file |-> file_path]])

---------------------------------------------------------------------------
(* extract_decision_summary: decisions.py *)

SummaryMaxChars == 500
ContextBefore == 1
ContextEnd == 3

DecisionKeywords ==
    {<<"d", "e", "c", "i", "d", "e", "d">>, <<"c", "h", "o", "s", "e">>,
    <<"s", "e", "l", "e", "c", "t", "e", "d">>,
    <<"g", "o", "i", "n", "g", " ", "w", "i", "t", "h">>,
    <<"w", "i", "l", "l", " ", "u", "s", "e">>,
    <<"b", "e", "c", "a", "u", "s", "e">>,
    <<"i", "n", "s", "t", "e", "a", "d", " ", "o", "f">>,
    <<"t", "r", "a", "d", "e", "-", "o", "f", "f">>,
    <<"a", "p", "p", "r", "o", "a", "c", "h">>,
    <<"a", "r", "c", "h", "i", "t", "e", "c", "t", "u", "r", "e">>}

\* the list `relevant`: for each line that holds a keyword, in order,
\* lines[max(0, i - 1):min(len(lines), i + 3)] (i counts from 0 there, from 1
\* here)
RECURSIVE RelevantLines(_, _)
RelevantLines(lines, i) ==
    IF i > Len(lines) THEN << >>
    ELSE IF \E kw \in DecisionKeywords : Contains(kw, Lower(lines[i]))
    THEN SubSeq(lines, Max(1, i - ContextBefore), Min(Len(lines), i + ContextEnd - 1))
            \o RelevantLines(lines, i + 1)
    ELSE RelevantLines(lines, i + 1)

\* a plausible slip: only a repeat of the line just before is removed
Deduplicated_adjacent(lines, seen) ==
    LET kept == {k \in 1..Len(lines) : k = 1 \/ lines[k] # lines[k - 1]}
        rank == [k \in kept |-> Cardinality({j \in kept : j < k})]
    IN  [n \in 1..Cardinality(kept) |-> lines[CHOOSE k \in kept : rank[k] = n - 1]]

\* the list `unique`: first occurrences, in order
RECURSIVE Deduplicated(_, _)
Deduplicated(lines, seen) ==
    IF Len(lines) = 0 THEN << >>
    ELSE IF lines[1] \in seen THEN Deduplicated(Tail(lines), seen)
    ELSE <<lines[1]>> \o Deduplicated(Tail(lines), seen \cup {lines[1]})

\* a plausible slip: the fallback returns the message uncut
extract_decision_summary_whole_fallback(message, max_chars) ==
    LET relevant == RelevantLines(SplitLines(Strip(message)), 1)
    IN  IF Len(relevant) > 0
        THEN Take(Join(Deduplicated(relevant, {}), <<"\n">>), max_chars)
        ELSE message
extract_decision_summary(message, max_chars) ==
    LET relevant == RelevantLines(SplitLines(Strip(message)), 1)
    IN  IF Len(relevant) > 0
        THEN Take(Join(Deduplicated(relevant, {}), <<"\n">>), max_chars)
        ELSE Take(message, max_chars)

---------------------------------------------------------------------------
(* The hook handlers: hooks/runner.py.  Each returns the files it leaves;  *)
(* an exception ends the handler where it is raised (main catches it), and *)
(* what was written before it stays written.                               *)

DefaultMaxCharsInjected == 6000
DefaultPromptMaxChars == 2000
MinPromptLength == 10
MinStopMessageLength == 80

\* what a handler leaves: the files, whether it ended by raising, and what it
\* wrote to stdout
Handled(d, c, i, dir, clk) ==
    [docs |-> d, cfg |-> c, idx |-> i, snaps |-> dir, clock |-> clk,
     raised |-> FALSE, out |-> << >>]

\* the handler ends by raising: nothing was written to stdout
Raising(h) == [h EXCEPT !.raised = TRUE]

\* the handler ends with out_json(obj) or noop()
Responding(h, obj) == [h EXCEPT !.out = <<obj>>]

\* a string given character by character, as a JSON value
JText(text) == [t |-> "text", s |-> text]

\* noop() writes "{}"
NoopResponse == JObj(EmptyDict)

\* additional_context(event_name, text)
additional_context(event_name, text) ==
    JObj([hookSpecificOutput |->
             JObj([hookEventName |-> JStr(event_name), additionalContext |-> JText(text)])])

\* index = load_index(root) succeeds and append_event(index, ...) finds a dict
IndexLoads(i, dflt) == \E r \in {load_index(i, dflt)} : ~r.raised /\ IsDict(r.value)

\* index = load_index(root) ... append_event(index, kind, payload);
\* save_index(root, index)
LoggedIndex(i, dflt, clk, kind, payload) ==
    LET r == load_index(i, dflt)
    IN  IF r.raised \/ ~IsDict(r.value) THEN i
        ELSE save_json(JObj(append_event(r.value.v,
                 [ts |-> Digits(clk, TsWidth), kind |-> kind, payload |-> payload])))

\* a plausible slip: the snapshot is read whole
get_latest_snapshot_text_uncut(i, dflt, dir, max_chars) ==
    LET r == load_index(i, dflt)
        last_snapshot == Get(r.value.v, "last_snapshot", None)
        found == {f \in dir : RelPath(f.name) = last_snapshot}
    IN  IF r.raised \/ ~IsDict(r.value) THEN [raised |-> TRUE, text |-> << >>]
        ELSE IF last_snapshot = None \/ last_snapshot = << >> \/ found = {}
        THEN [raised |-> FALSE, text |-> << >>]
        ELSE [raised |-> FALSE, text |-> (CHOOSE f \in found : TRUE).content]

\* get_latest_snapshot_text(root, max_chars)
get_latest_snapshot_text(i, dflt, dir, max_chars) ==
    LET r == load_index(i, dflt)
        last_snapshot == Get(r.value.v, "last_snapshot", None)
        found == {f \in dir : RelPath(f.name) = last_snapshot}
    IN  IF r.raised \/ ~IsDict(r.value) THEN [raised |-> TRUE, text |-> << >>]
        ELSE IF last_snapshot = None \/ last_snapshot = << >> \/ found = {}
        THEN [raised |-> FALSE, text |-> << >>]
        ELSE IF ~CanSlice(max_chars) THEN [raised |-> TRUE, text |-> << >>]
        ELSE [raised |-> FALSE, text |-> Slice((CHOOSE f \in found : TRUE).content, max_chars)]

\* the text `protocol` of handle_session_start
Protocol ==
    <<"C", "C", "C", "M", " ", "a", "c", "t", "i", "v", "e", ".", "\n", "R",
      "u", "l", "e", "s", ":", "\n", "1", ")", " ", "K", "e", "e", "p", " ",
      "o", "u", "t", "p", "u", "t", "s", " ", "h", "i", "g", "h", "-", "s",
      "i", "g", "n", "a", "l", " ", EmDash, " ", "n", "o", " ", "v", "e",
      "r", "b", "o", "s", "e", " ", "r", "e", "a", "s", "o", "n", "i", "n",
      "g", ".", "\n", "2", ")", " ", "S", "u", "b", "a", "g", "e", "n", "t",
      "s", " ", "m", "u", "s", "t", " ", "r", "e", "t", "u", "r", "n", ":",
      " ", "R", "E", "S", "U", "L", "T", " ", "/", " ", "W", "H", "Y", " ",
      "/", " ", "R", "E", "F", "S", " ", "o", "n", "l", "y", ".", "\n", "3",
      ")", " ", "P", "r", "o", "j", "e", "c", "t", " ", "m", "e", "m", "o",
      "r", "y", " ", "l", "i", "v", "e", "s", " ", "i", "n", " ", ".", "c",
      "c", "c", "m", "/", "m", "e", "m", "o", "r", "y", "/", "*", ".", "m",
      "d", " ", EmDash, " ", "t", "r", "e", "a", "t", " ", "a", "s", " ",
      "a", "u", "t", "h", "o", "r", "i", "t", "a", "t", "i", "v", "e", ".",
      "\n", "4", ")", " ", "I", "f", " ", "c", "o", "n", "t", "e", "x", "t",
      " ", "i", "s", " ", "t", "i", "g", "h", "t", ",", " ", "r", "e", "l",
      "y", " ", "o", "n", " ", "t", "h", "e", " ", "C", "o", "n", "t", "i",
      "n", "u", "i", "t", "y", " ", "P", "a", "c", "k", "e", "t", ".", "\n">>
PacketIntroduction ==
    <<"\n", "-", "-", "-", "\n", "L", "a", "t", "e", "s", "t", " ", "C", "o",
      "n", "t", "i", "n", "u", "i", "t", "y", " ", "P", "a", "c", "k", "e",
      "t", ":", "\n", "\n">>

\* handle_session_start
handle_session_start(d, c, i, dir, dflt, clk, hook_input) ==
    LET d1 == EnsuredDocs(d)
        c1 == EnsuredConfig(c)
        i1 == EnsuredIndex(i, dflt)
        source == Get(hook_input, "source", "startup")
        config == load_config(c1)
        section == Get(config.value.v, "snapshot", JObj(EmptyDict))
        max_inject == Get(section.v, "max_chars_injected", JInt(DefaultMaxCharsInjected))
        snap == get_latest_snapshot_text(i1, dflt, dir, max_inject)
        payload == [source |-> source]
        light == Responding(
                     Handled(d1, c1, LoggedIndex(i1, dflt, clk, "session_start", payload),
                             dir, clk + 1),
                     additional_context("SessionStart", Protocol))
    IN  IF ~IndexLoads(i1, dflt) THEN Raising(Handled(d1, c1, i1, dir, clk))
        ELSE IF source \in {"compact", "resume"}
        THEN IF config.raised \/ ~IsDict(section) \/ snap.raised
             THEN Raising(Handled(d1, c1, i1, dir, clk))
             ELSE IF Len(snap.text) > 0
             THEN Responding(
                      Handled(d1, c1,
                              LoggedIndex(i1, dflt, clk, "session_start_injected", payload),
                              dir, clk + 1),
                      additional_context("SessionStart",
                                         Protocol \o PacketIntroduction \o snap.text))
             ELSE light
        ELSE light

\* the text `guidance` of handle_pre_compact, up to the packet
Guidance ==
    <<"A", "b", "o", "u", "t", " ", "t", "o", " ", "c", "o", "m", "p", "a",
      "c", "t", " ", "c", "o", "n", "t", "e", "x", "t", ".", "\n", "C", "o",
      "m", "p", "a", "c", "t", "i", "o", "n", " ", "M", "U", "S", "T", " ",
      "p", "r", "e", "s", "e", "r", "v", "e", ":", "\n", "-", " ", "T", "h",
      "e", " ", "u", "s", "e", "r", "'", "s", " ", "c", "u", "r", "r", "e",
      "n", "t", " ", "o", "b", "j", "e", "c", "t", "i", "v", "e", " ", "a",
      "n", "d", " ", "a", "n", "y", " ", "c", "o", "n", "s", "t", "r", "a",
      "i", "n", "t", "s", " ", "t", "h", "e", "y", " ", "g", "a", "v", "e",
      "\n", "-", " ", "D", "e", "c", "i", "s", "i", "o", "n", "s", "/", "c",
      "o", "n", "s", "t", "r", "a", "i", "n", "t", "s", "/", "i", "n", "t",
      "e", "r", "f", "a", "c", "e", "s", " ", "f", "r", "o", "m", " ", ".",
      "c", "c", "c", "m", "/", "m", "e", "m", "o", "r", "y", "/", "*", ".",
      "m", "d", "\n", "-", " ", "T", "h", "e", " ", "r", "e", "c", "e", "n",
      "t", " ", "f", "i", "l", "e", "s", " ", "t", "o", "u", "c", "h", "e",
      "d", " ", "l", "i", "s", "t", "\n", "-", " ", "A", "n", "y", " ", "e",
      "x", "p", "l", "i", "c", "i", "t", " ", "T", "O", "D", "O", " ", "/",
      " ", "N", "e", "x", "t", " ", "A", "c", "t", "i", "o", "n", "s", "\n",
      "\n", "U", "s", "e", " ", "t", "h", "e", " ", "f", "o", "l", "l", "o",
      "w", "i", "n", "g", " ", "C", "o", "n", "t", "i", "n", "u", "i", "t",
      "y", " ", "P", "a", "c", "k", "e", "t", " ", "a", "s", " ", "s", "o",
      "u", "r", "c", "e", " ", "o", "f", " ", "t", "r", "u", "t", "h", ":",
      "\n", "\n">>

\* handle_pre_compact
handle_pre_compact(d, c, i, dir, dflt, clk, hook_input) ==
    LET r == create_snapshot(EnsuredDocs(d), EnsuredConfig(c), EnsuredIndex(i, dflt), dir,
                             dflt, clk, hook_input)
        config == load_config(r.cfg)
        section == Get(config.value.v, "snapshot", JObj(EmptyDict))
        max_inject == Get(section.v, "max_chars_injected", JInt(DefaultMaxCharsInjected))
        h == Handled(r.docs, r.cfg, r.idx, r.snaps, r.clock)
    IN  IF r.raised \/ config.raised \/ ~IsDict(section) \/ ~CanSlice(max_inject)
        THEN Raising(h)
        ELSE Responding(h, additional_context("PreCompact",
                                              Guidance \o Slice(r.text, max_inject)))

\* handle_post_tool_use: no ensure_dirs; save_index raises when .cccm is not
\* there (has_base is whether it is)
handle_post_tool_use(d, c, i, dir, dflt, clk, hook_input, has_base) ==
    LET tool_name == Get(hook_input, "tool_name", "")
        given == Get(hook_input, "tool_input", JNull)
        tool_input == IF Truthy(given) THEN given ELSE JObj(EmptyDict)
        file_path == extract_file_path(tool_input)
        r == load_index(i, dflt)
    IN  IF tool_name \notin DEFAULT_TRACKED_TOOLS \/ file_path = JNull
        THEN Responding(Handled(d, c, i, dir, clk), NoopResponse)
        ELSE IF r.raised \/ ~IsDict(r.value) THEN Raising(Handled(d, c, i, dir, clk))
        ELSE IF ~has_base THEN Raising(Handled(d, c, i, dir, clk + 1))
        ELSE Responding(
                 Handled(d, c, save_json(JObj(tracked(r.value.v, tool_name, file_path.p,
                                                      Digits(clk, TsWidth)))),
                         dir, clk + 1),
                 NoopResponse)

\* DEFAULT_AGENT_BUDGETS
AgentMemoryChars == 1500
BashInstructions ==
    <<"S", "u", "b", "a", "g", "e", "n", "t", " ", "p", "r", "o", "t", "o",
      "c", "o", "l", " ", "(", "C", "C", "C", "M", ")", ":", "\n", "-", " ",
      "O", "u", "t", "p", "u", "t", " ", "O", "N", "L", "Y", " ", "s", "t",
      "r", "u", "c", "t", "u", "r", "e", "d", " ", "r", "e", "s", "u", "l",
      "t", "s", ":", "\n", " ", " ", "R", "E", "S", "U", "L", "T", ":", " ",
      "(", "w", "h", "a", "t", " ", "w", "a", "s", " ", "d", "o", "n", "e",
      "/", "d", "e", "c", "i", "d", "e", "d", ")", "\n", " ", " ", "W", "H",
      "Y", ":", " ", "(", "m", "a", "x", " ", "3", " ", "l", "i", "n", "e",
      "s", ")", "\n", " ", " ", "R", "E", "F", "S", ":", " ", "(", "f", "i",
      "l", "e", "s", "/", "c", "o", "m", "m", "a", "n", "d", "s", ")", "\n",
      "-", " ", "N", "O", " ", "v", "e", "r", "b", "o", "s", "e", " ", "r",
      "e", "a", "s", "o", "n", "i", "n", "g", ".", " ", "B", "e", " ", "e",
      "x", "t", "r", "e", "m", "e", "l", "y", " ", "c", "o", "n", "c", "i",
      "s", "e", ".", "\n">>
ExploreInstructions ==
    <<"S", "u", "b", "a", "g", "e", "n", "t", " ", "p", "r", "o", "t", "o",
      "c", "o", "l", " ", "(", "C", "C", "C", "M", ")", ":", "\n", "-", " ",
      "O", "u", "t", "p", "u", "t", " ", "s", "t", "r", "u", "c", "t", "u",
      "r", "e", "d", " ", "r", "e", "s", "u", "l", "t", "s", ":", "\n", " ",
      " ", "R", "E", "S", "U", "L", "T", ":", " ", "(", "f", "i", "n", "d",
      "i", "n", "g", "s", ")", "\n", " ", " ", "W", "H", "Y", ":", " ", "(",
      "m", "a", "x", " ", "1", "5", " ", "l", "i", "n", "e", "s", " ", "o",
      "f", " ", "a", "n", "a", "l", "y", "s", "i", "s", ")", "\n", " ", " ",
      "R", "E", "F", "S", ":", " ", "(", "f", "i", "l", "e", "s", "/", "c",
      "o", "m", "m", "a", "n", "d", "s", ")", "\n", "-", " ", "B", "e", " ",
      "t", "h", "o", "r", "o", "u", "g", "h", " ", "b", "u", "t", " ", "s",
      "t", "r", "u", "c", "t", "u", "r", "e", "d", ".", " ", "N", "o", " ",
      "f", "i", "l", "l", "e", "r", ".", "\n">>
PlanInstructions ==
    <<"S", "u", "b", "a", "g", "e", "n", "t", " ", "p", "r", "o", "t", "o",
      "c", "o", "l", " ", "(", "C", "C", "C", "M", ")", ":", "\n", "-", " ",
      "O", "u", "t", "p", "u", "t", " ", "s", "t", "r", "u", "c", "t", "u",
      "r", "e", "d", " ", "r", "e", "s", "u", "l", "t", "s", ":", "\n", " ",
      " ", "R", "E", "S", "U", "L", "T", ":", " ", "(", "p", "l", "a", "n",
      " ", "o", "r", " ", "r", "e", "c", "o", "m", "m", "e", "n", "d", "a",
      "t", "i", "o", "n", ")", "\n", " ", " ", "W", "H", "Y", ":", " ", "(",
      "m", "a", "x", " ", "1", "5", " ", "l", "i", "n", "e", "s", " ", "o",
      "f", " ", "r", "a", "t", "i", "o", "n", "a", "l", "e", ")", "\n", " ",
      " ", "R", "E", "F", "S", ":", " ", "(", "f", "i", "l", "e", "s", "/",
      "c", "o", "m", "m", "a", "n", "d", "s", ")", "\n", "-", " ", "I", "n",
      "c", "l", "u", "d", "e", " ", "t", "r", "a", "d", "e", "o", "f", "f",
      "s", " ", "w", "h", "e", "n", " ", "r", "e", "l", "e", "v", "a", "n",
      "t", ".", "\n">>
DefaultInstructions ==
    <<"S", "u", "b", "a", "g", "e", "n", "t", " ", "p", "r", "o", "t", "o",
      "c", "o", "l", " ", "(", "C", "C", "C", "M", ")", ":", "\n", "-", " ",
      "O", "u", "t", "p", "u", "t", " ", "O", "N", "L", "Y", " ", "s", "t",
      "r", "u", "c", "t", "u", "r", "e", "d", " ", "r", "e", "s", "u", "l",
      "t", "s", ":", "\n", " ", " ", "R", "E", "S", "U", "L", "T", ":", " ",
      "(", "w", "h", "a", "t", " ", "w", "a", "s", " ", "d", "o", "n", "e",
      "/", "d", "e", "c", "i", "d", "e", "d", ")", "\n", " ", " ", "W", "H",
      "Y", ":", " ", "(", "m", "a", "x", " ", "8", " ", "l", "i", "n", "e",
      "s", ")", "\n", " ", " ", "R", "E", "F", "S", ":", " ", "(", "f", "i",
      "l", "e", "s", "/", "c", "o", "m", "m", "a", "n", "d", "s", ")", "\n",
      "-", " ", "N", "O", " ", "v", "e", "r", "b", "o", "s", "e", " ", "r",
      "e", "a", "s", "o", "n", "i", "n", "g", ",", " ", "N", "O", " ", "l",
      "o", "n", "g", " ", "p", "l", "a", "n", "s", ",", " ", "N", "O", " ",
      "r", "e", "s", "t", "a", "t", "i", "n", "g", " ", "t", "h", "e", " ",
      "p", "r", "o", "b", "l", "e", "m", ".", "\n", "-", " ", "I", "f", " ",
      "u", "n", "c", "e", "r", "t", "a", "i", "n", ",", " ", "p", "r", "o",
      "p", "o", "s", "e", " ", "2", "-", "3", " ", "o", "p", "t", "i", "o",
      "n", "s", " ", "w", "i", "t", "h", " ", "t", "r", "a", "d", "e", "o",
      "f", "f", "s", ",", " ", "t", "h", "e", "n", " ", "p", "i", "c", "k",
      " ", "o", "n", "e", ".", "\n">>
AgentBudget(lines, inject, instructions) ==
    JObj([max_output_lines |-> JInt(lines), inject_memory |-> JBool(inject),
          instructions |-> JText(instructions)])
DEFAULT_AGENT_BUDGETS ==
    [Bash |-> AgentBudget(10, FALSE, BashInstructions),
     Explore |-> AgentBudget(30, TRUE, ExploreInstructions),
     Plan |-> AgentBudget(30, TRUE, PlanInstructions),
     _default |-> AgentBudget(15, FALSE, DefaultInstructions)]
AgentMemoryIntroduction ==
    <<"\n", "-", "-", "-", "\n", "P", "r", "o", "j", "e", "c", "t", " ", "m",
      "e", "m", "o", "r", "y", " ", "(", "f", "o", "r", " ", "r", "e", "f",
      "e", "r", "e", "n", "c", "e", ")", ":", "\n">>

\* _build_agent_instructions(agent_type, config_budgets, root): a budget of
\* the configuration is merged into the default of its name when it is a dict
\* and replaces it otherwise; a budget or a `_default` that is no dict raises,
\* and so does adding the memory to instructions that are no string
build_agent_instructions(agent_type, config_budgets, d) ==
    LET budgets == [k \in DOMAIN DEFAULT_AGENT_BUDGETS \cup DOMAIN config_budgets |->
                       IF k \notin DOMAIN config_budgets THEN DEFAULT_AGENT_BUDGETS[k]
                       ELSE IF k \in DOMAIN DEFAULT_AGENT_BUDGETS /\ IsDict(config_budgets[k])
                       THEN JObj(DictMerge(DEFAULT_AGENT_BUDGETS[k].v, config_budgets[k].v))
                       ELSE config_budgets[k]]
        budget == Get(budgets, agent_type, budgets["_default"])
        msg == Get(budget.v, "instructions", budgets["_default"].v["instructions"])
        mem_summary == summarize_memory(d, AgentMemoryChars)
        inject == Truthy(Get(budget.v, "inject_memory", JNull)) /\ Len(mem_summary) > 0
    IN  IF ~IsDict(budgets["_default"]) \/ ~IsDict(budget) THEN [raised |-> TRUE, msg |-> JNull]
        ELSE IF ~inject THEN [raised |-> FALSE, msg |-> msg]
        ELSE IF msg.t # "text" THEN [raised |-> TRUE, msg |-> JNull]
        ELSE [raised |-> FALSE,
              msg |-> JText(msg.s \o AgentMemoryIntroduction
                                  \o Take(mem_summary, AgentMemoryChars) \o <<"\n">>)]

\* handle_subagent_start
handle_subagent_start(d, c, i, dir, dflt, clk, hook_input) ==
    LET d1 == EnsuredDocs(d)
        c1 == EnsuredConfig(c)
        i1 == EnsuredIndex(i, dflt)
        config == load_config(c1)
        agent_type == Get(hook_input, "agent_type", "unknown")
        budgets == Get(config.value.v, "agent_budgets", JObj(EmptyDict))
        built == build_agent_instructions(agent_type, budgets.v, d1)
    IN  IF config.raised \/ ~IsDict(budgets) \/ built.raised \/ ~IndexLoads(i1, dflt)
        THEN Raising(Handled(d1, c1, i1, dir, clk))
        ELSE Responding(
                 Handled(d1, c1,
                         LoggedIndex(i1, dflt, clk, "subagent_start",
                                     [agent_type |-> agent_type]),
                         dir, clk + 1),
                 JObj([hookSpecificOutput |->
                          JObj([hookEventName |-> JStr("SubagentStart"),
                                additionalContext |-> built.msg])]))

\* the lines around the memory handle_user_prompt_submit injects
InjectionHead ==
    <<"R", "e", "l", "e", "v", "a", "n", "t", " ", "p", "r", "o", "j", "e",
      "c", "t", " ", "m", "e", "m", "o", "r", "y", " ", "(", "f", "r", "o",
      "m", " ", "C", "C", "C", "M", ")", ":", "\n", "-", "-", "-", "\n">>
InjectionFoot ==
    <<"\n", "-", "-", "-">>

\* handle_user_prompt_submit
handle_user_prompt_submit(d, c, i, dir, dflt, clk, hook_input) ==
    LET prompt == Get(hook_input, "prompt", << >>)
        d1 == EnsuredDocs(d)
        c1 == EnsuredConfig(c)
        i1 == EnsuredIndex(i, dflt)
        config == load_config(c1)
        section == Get(config.value.v, "prompt_inject", JObj(EmptyDict))
        max_inject == Get(section.v, "max_chars", JInt(DefaultPromptMaxChars))
        relevant == find_relevant_memory(d1, dir, prompt, AsInt(max_inject))
    IN  IF Len(prompt) < MinPromptLength
        THEN Responding(Handled(d, c, i, dir, clk), NoopResponse)
        ELSE IF config.raised \/ ~IsDict(section) \/ ~CanCompare(max_inject)
        THEN Raising(Handled(d1, c1, i1, dir, clk))
        ELSE IF Len(relevant) = 0 THEN Responding(Handled(d1, c1, i1, dir, clk), NoopResponse)
        ELSE IF ~IndexLoads(i1, dflt) THEN Raising(Handled(d1, c1, i1, dir, clk))
        ELSE Responding(
                 Handled(d1, c1,
                         LoggedIndex(i1, dflt, clk, "prompt_memory_injected",
                                     [prompt_len |-> Len(prompt)]),
                         dir, clk + 1),
                 additional_context("UserPromptSubmit",
                                    InjectionHead \o relevant \o InjectionFoot))

\* a plausible slip: tracking.track_decisions is not consulted
handle_stop_untracked(d, c, i, dir, dflt, clk, hook_input) ==
    LET last_message == Get(hook_input, "last_assistant_message", << >>)
        d1 == EnsuredDocs(d)
        c1 == EnsuredConfig(c)
        i1 == EnsuredIndex(i, dflt)
        config == load_config(c1)
        tracking == Get(config.value.v, "tracking", JObj(EmptyDict))
        summary == extract_decision_summary(last_message, SummaryMaxChars)
        written == append_decision(d1["decisions.md"], Digits(clk, TsWidth), summary)
        d2 == [d1 EXCEPT !["decisions.md"] = written.doc]
    IN  IF Get(hook_input, "stop_hook_active", FALSE)
        THEN Responding(Handled(d, c, i, dir, clk), NoopResponse)
        ELSE IF Len(last_message) < MinStopMessageLength
        THEN Responding(Handled(d, c, i, dir, clk), NoopResponse)
        ELSE IF config.raised \/ ~IsDict(tracking) THEN Raising(Handled(d1, c1, i1, dir, clk))
        ELSE IF ~detect_decision(last_message)
        THEN Responding(Handled(d1, c1, i1, dir, clk), NoopResponse)
        ELSE IF ~written.returned THEN Responding(Handled(d1, c1, i1, dir, clk), NoopResponse)
        ELSE IF ~IndexLoads(i1, dflt) THEN Raising(Handled(d2, c1, i1, dir, clk + 1))
        ELSE Responding(
                 Handled(d2, c1,
                         LoggedIndex(i1, dflt, clk + 1, "decision_captured",
                                     [chars |-> Len(summary)]),
                         dir, clk + 2),
                 NoopResponse)

\* handle_stop: append_decision reads the clock once when it writes, and the
\* event reads it again
handle_stop(d, c, i, dir, dflt, clk, hook_input) ==
    LET last_message == Get(hook_input, "last_assistant_message", << >>)
        d1 == EnsuredDocs(d)
        c1 == EnsuredConfig(c)
        i1 == EnsuredIndex(i, dflt)
        config == load_config(c1)
        tracking == Get(config.value.v, "tracking", JObj(EmptyDict))
        track_decisions == Get(tracking.v, "track_decisions", JBool(TRUE))
        summary == extract_decision_summary(last_message, SummaryMaxChars)
        written == append_decision(d1["decisions.md"], Digits(clk, TsWidth), summary)
        d2 == [d1 EXCEPT !["decisions.md"] = written.doc]
    IN  IF Get(hook_input, "stop_hook_active", FALSE)
        THEN Responding(Handled(d, c, i, dir, clk), NoopResponse)
        ELSE IF Len(last_message) < MinStopMessageLength
        THEN Responding(Handled(d, c, i, dir, clk), NoopResponse)
        ELSE IF config.raised \/ ~IsDict(tracking) THEN Raising(Handled(d1, c1, i1, dir, clk))
        ELSE IF ~Truthy(track_decisions)
        THEN Responding(Handled(d1, c1, i1, dir, clk), NoopResponse)
        ELSE IF ~detect_decision(last_message)
        THEN Responding(Handled(d1, c1, i1, dir, clk), NoopResponse)
        ELSE IF ~written.returned THEN Responding(Handled(d1, c1, i1, dir, clk), NoopResponse)
        ELSE IF ~IndexLoads(i1, dflt) THEN Raising(Handled(d2, c1, i1, dir, clk + 1))
        ELSE Responding(
                 Handled(d2, c1,
                         LoggedIndex(i1, dflt, clk + 1, "decision_captured",
                                     [chars |-> Len(summary)]),
                         dir, clk + 2),
                 NoopResponse)

\* whether .cccm exists: it does as soon as anything is in it
HasBase ==
    \/ \E n \in DOMAIN docs : docs[n] # Absent
    \/ cfg_file.kind # "missing"
    \/ idx_file.kind # "missing"
    \/ snaps # {}

\* the files a handler leaves become the files of the root
StoreHandled(op, r, pruned) ==
    /\ docs' = r.docs
    /\ cfg_file' = r.cfg
    /\ idx_file' = r.idx
    /\ snaps' = r.snaps
    /\ clock' = r.clock
    /\ last' = [op |-> op, prev |-> last.op, pruned |-> pruned]
    /\ steps' = steps + 1
    /\ StoreFrame

SessionStartInputs == {EmptyDict, [source |-> "compact"]}

SessionStart ==
    /\ steps < MaxStoreSteps
    /\ \E hook_input \in SessionStartInputs :
       \E r \in {handle_session_start(docs, cfg_file, idx_file, snaps, DEFAULT_INDEX, clock,
                                      hook_input)} :
           StoreHandled("session_start", r, FALSE)

PreCompact ==
    /\ steps < MaxStoreSteps
    /\ \E r \in {handle_pre_compact(docs, cfg_file, idx_file, snaps, DEFAULT_INDEX, clock,
                                    EmptyDict)} :
           StoreHandled("pre_compact", r, FALSE)

PostToolUseInputs ==
    {[tool_name |-> "Read", tool_input |-> JObj([file_path |-> PathStr(3)])],
     [tool_name |-> "MultiEdit",
      tool_input |-> JObj([edits |-> JList(<<JObj([path |-> PathStr(1)])>>)])]}

PostToolUse ==
    /\ steps < MaxStoreSteps
    /\ \E hook_input \in PostToolUseInputs :
       \E r \in {handle_post_tool_use(docs, cfg_file, idx_file, snaps, DEFAULT_INDEX, clock,
                                      hook_input, HasBase)} :
           StoreHandled("post_tool_use", r, FALSE)

SubagentStartInputs == {[agent_type |-> "Explore"]}

SubagentStart ==
    /\ steps < MaxStoreSteps
    /\ \E hook_input \in SubagentStartInputs :
       \E r \in {handle_subagent_start(docs, cfg_file, idx_file, snaps, DEFAULT_INDEX, clock,
                                       hook_input)} :
           StoreHandled("subagent_start", r, FALSE)

PromptInputs ==
    {[prompt |-> <<"r", "e", "d", "i", "s">>],
     [prompt |-> <<"s", "h", "o", "u", "l", "d", " ", "w", "e", " ", "u", "s", "e", " ",
                   "r", "e", "d", "i", "s">>]}

UserPromptSubmit ==
    /\ steps < MaxStoreSteps
    /\ \E hook_input \in PromptInputs :
       \E r \in {handle_user_prompt_submit(docs, cfg_file, idx_file, snaps, DEFAULT_INDEX, clock,
                                           hook_input)} :
           StoreHandled("user_prompt_submit", r, FALSE)

StopMessage == Padded(<<"W", "e", " ", "d", "e", "c", "i", "d", "e", "d", " ", "t", "o", " ",
                        "u", "s", "e", " ", "R", "e", "d", "i", "s">>, MinStopMessageLength)
StopInputs ==
    {[last_assistant_message |-> StopMessage],
     [last_assistant_message |-> StopMessage, stop_hook_active |-> TRUE],
     [last_assistant_message |-> <<"W", "e", " ", "c", "h", "o", "s", "e", " ", "i", "t">>]}

Stop ==
    /\ steps < MaxStoreSteps
    /\ \E hook_input \in StopInputs :
       \E r \in {handle_stop(docs, cfg_file, idx_file, snaps, DEFAULT_INDEX, clock, hook_input)} :
           StoreHandled("stop", r,
               /\ r.docs # DocsEnsured
               /\ Cardinality(HeadingStarts(DocsEnsured["decisions.md"] \o
                      Entry(utc_timestamp,
                            extract_decision_summary(hook_input.last_assistant_message,
                                                     SummaryMaxChars))))
                    > MAX_DECISIONS)

StoreNext ==
    \/ StoreEnsureDirs
    \/ MemoryWrite
    \/ StoreAppendDecision
    \/ StoreCreateSnapshot
    \/ SessionStart
    \/ PreCompact
    \/ PostToolUse
    \/ SubagentStart
    \/ UserPromptSubmit
    \/ Stop

StoreSpec == StoreInit /\ [][StoreNext]_vars

---------------------------------------------------------------------------
---------------------------------------------------------------------------
(* Two post_tool_use invocations on the same root at the same time.  Each  *)
(* hook is a process of its own (runner.py l.7), so each has its own       *)
(* in-memory index and its own module-level DEFAULT_INDEX; what they share *)
(* is index.json and the wall clock.  A read of index.json and a write of  *)
(* it are one step each; no lock is taken anywhere in the source.  Here    *)
(* `index` maps each invocation to its in-memory index, and `last` holds   *)
(* each invocation's position and hook input.  The root has been set up   *)
(* (.cccm exists, so save_index can write); index.json holds data or has   *)
(* been removed.                                                           *)

Procs == {1, 2}
Other(p) == 3 - p

\* the tracked paths the two hook inputs may name
MaxRacePath == 3

RaceToolNames == {"Write", "Read"}
RaceHookInputs ==
    {[tool_name |-> n, tool_input |-> JObj([file_path |-> PathStr(f)])] :
        n \in RaceToolNames, f \in 1..MaxRacePath}

RaceIndexes ==
    {Missing,
     Json(JObj([version |-> 1, last_snapshot |-> None, recent_files |-> <<2, 1>>,
                events |-> << >>]))}

RaceInit ==
    /\ index = [p \in Procs |-> EmptyDict]
    /\ shared = {}
    /\ DEFAULT_INDEX = DefaultIndexValue
    /\ cfg_file = Missing
    /\ idx_file \in RaceIndexes
    /\ docs = EnsuredDocs(NoDocs)
    /\ snaps = NoSnaps
    /\ clock = 0
    /\ \E input \in [Procs -> RaceHookInputs] :
          last = [op |-> "race", pc |-> [p \in Procs |-> "start"], hook_input |-> input,
                  initial |-> idx_file, stale |-> [p \in Procs |-> FALSE],
                  savers |-> << >>]
    /\ appended = << >>
    /\ steps = 0

RaceFrame == UNCHANGED <<shared, DEFAULT_INDEX, cfg_file, docs, snaps, appended>>

\* l.146-157: the tool is not tracked, or its input names no file
RaceNoop(p) ==
    /\ last.pc[p] = "start"
    /\ \/ last.hook_input[p].tool_name \notin DEFAULT_TRACKED_TOOLS
       \/ extract_file_path(last.hook_input[p].tool_input) = JNull
    /\ last' = [last EXCEPT !.pc[p] = "noop"]
    /\ steps' = steps + 1
    /\ UNCHANGED <<index, idx_file, clock>>
    /\ RaceFrame

\* l.162: index = load_index(root)
RaceLoad(p) ==
    /\ last.pc[p] = "start"
    /\ last.hook_input[p].tool_name \in DEFAULT_TRACKED_TOOLS
    /\ extract_file_path(last.hook_input[p].tool_input) # JNull
    /\ index' = [index EXCEPT ![p] = load_index(idx_file, DEFAULT_INDEX).value.v]
    /\ last' = [last EXCEPT !.pc[p] = "loaded"]
    /\ steps' = steps + 1
    /\ UNCHANGED <<idx_file, clock>>
    /\ RaceFrame

\* l.163-164: add_recent_file and append_event on the in-memory index
RaceTrack(p) ==
    /\ last.pc[p] = "loaded"
    /\ index' = [index EXCEPT ![p] =
                    tracked(index[p], last.hook_input[p].tool_name,
                            extract_file_path(last.hook_input[p].tool_input).p,
                            utc_timestamp)]
    /\ clock' = clock + 1
    /\ last' = [last EXCEPT !.pc[p] = "tracked"]
    /\ steps' = steps + 1
    /\ UNCHANGED idx_file
    /\ RaceFrame

\* l.165: save_index(root, index)
RaceSave(p) ==
    /\ last.pc[p] = "tracked"
    /\ idx_file' = save_json(JObj(index[p]))
    /\ last' = [last EXCEPT !.pc[p] = "saved",
                            !.stale[Other(p)] = @ \/ last.pc[Other(p)] \in {"loaded", "tracked"},
                            !.savers = Append(@, p)]
    /\ steps' = steps + 1
    /\ UNCHANGED <<index, clock>>
    /\ RaceFrame

RaceNext == \E p \in Procs : RaceNoop(p) \/ RaceLoad(p) \/ RaceTrack(p) \/ RaceSave(p)

RaceSpec == RaceInit /\ [][RaceNext]_vars

\* RaceFullSpec: the same two invocations on a root whose index is at its
\* limits (max_events events, MaxRecentFiles recent files), one short of
\* them, or missing.  The paths 1 and 2 are not among the recent files.
FilledIndex(n_recent, n_events) ==
    Json(JObj([version |-> 1, last_snapshot |-> None,
               recent_files |-> [i \in 1..n_recent |-> i + 2],
               events |-> [i \in 1..n_events |->
                              [ts |-> Digits(0, TsWidth), kind |-> "tool",
                               payload |-> [tool_name |-> "Edit", file |-> 3]]]]))

RaceFullIndexes ==
    {Missing, FilledIndex(MaxRecentFiles, max_events),
     FilledIndex(MaxRecentFiles - 1, max_events - 1)}

RaceFullInit ==
    /\ index = [p \in Procs |-> EmptyDict]
    /\ shared = {}
    /\ DEFAULT_INDEX = DefaultIndexValue
    /\ cfg_file = Missing
    /\ idx_file \in RaceFullIndexes
    /\ docs = EnsuredDocs(NoDocs)
    /\ snaps = NoSnaps
    /\ clock = 0
    /\ \E input \in [Procs -> RaceHookInputs] :
          last = [op |-> "race", pc |-> [p \in Procs |-> "start"], hook_input |-> input,
                  initial |-> idx_file, stale |-> [p \in Procs |-> FALSE],
                  savers |-> << >>]
    /\ appended = << >>
    /\ steps = 0

RaceFullSpec == RaceFullInit /\ [][RaceNext]_vars

---------------------------------------------------------------------------
(* Single calls of the text functions, each on arguments drawn at the      *)
(* start: extract_decision_summary, summarize_memory, build_snapshot_text  *)
(* and add_recent_file.                                                    *)

SummaryMessages ==
    {<<>>,
    <<"W", "e", " ", "c", "h", "o", "s", "e", " ", "r", "e", "d", "i", "s", "\n">>,
    <<"p", "l", "a", "i", "n", " ", "t", "e", "x", "t", " ", "o", "n", "l", "y">>,
    <<" ", " ", "p", "a", "d", "d", "e", "d", " ", "p", "l", "a", "i", "n", " ", " ">>,
    <<"a", "\n", "W", "e", " ", "c", "h", "o", "s", "e", " ", "r", "e", "d", "i", "s", "\n", "b", "\n", "c", "\n", "d">>,
    <<"b", "e", "c", "a", "u", "s", "e", " ", "x", "\n", "b", "e", "c", "a", "u", "s", "e", " ", "x", "\n", "s", "o">>,
    <<"\n", "\n", "i", "n", "t", "r", "o", "\n", "\n", "G", "o", "i", "n", "g", " ", "w", "i", "t", "h", " ", "s", "q", "l", "i", "t", "e", " ", "i", "n", "s", "t", "e", "a", "d", " ", "o", "f", " ", "a", " ", "s", "e", "r", "v", "e", "r", ".", "\n">>}

SummaryLimits == {-1, 0, 1, 4, 10, SummaryMaxChars}

ExtractCalls ==
    {[op |-> "init", fn |-> "extract_decision_summary", message |-> m, max_chars |-> n] :
        m \in SummaryMessages, n \in SummaryLimits}

CallFrame ==
    UNCHANGED <<shared, DEFAULT_INDEX, cfg_file, idx_file, docs, snaps, clock, appended>>

\* extract_decision_summary(message, max_chars) for the arguments drawn
ExtractSummary ==
    /\ last.op = "init" /\ last.fn = "extract_decision_summary"
    /\ last' = [op |-> "extract_decision_summary", message |-> last.message,
                max_chars |-> last.max_chars,
                returned |-> extract_decision_summary(last.message, last.max_chars)]
    /\ steps' = steps + 1
    /\ UNCHANGED index
    /\ CallFrame

\* documents to summarize: none; the placeholders ensure_dirs writes; one
\* document written to; one emptied; two written to; one of blanks only
TwoDocs == [SomeDocs EXCEPT !["glossary.md"] = <<"t", "e", "r", "m", "s", "\n">>]
BlankDocs == [EnsuredDocs(NoDocs) EXCEPT !["constraints.md"] = <<" ", "\n", "\n">>]
SummaryDocs == {NoDocs, EnsuredDocs(NoDocs), SomeDocs, GlossaryDocs, TwoDocs, BlankDocs}

MemoryLimits == {-1, 0, 5, 11, 12, 30, SummaryBudget}

SummarizeCalls ==
    {[op |-> "init", fn |-> "summarize_memory", max_chars |-> n] : n \in MemoryLimits}

\* summarize_memory(root, max_chars) for the documents and the limit drawn
SummarizeMemory ==
    /\ last.op = "init" /\ last.fn = "summarize_memory"
    /\ last' = [op |-> "summarize_memory", max_chars |-> last.max_chars,
                returned |-> summarize_memory(docs, last.max_chars)]
    /\ steps' = steps + 1
    /\ UNCHANGED index
    /\ CallFrame

\* recent_files lists as a loaded index can hold them: kept by
\* add_recent_file, or edited by hand so that a path occurs twice or the
\* list is longer than MaxRecentFiles
LongRecent == [i \in 1..(MaxRecentFiles + 3) |-> i]
RecentLists == {<< >>, <<2, 1>>, <<1, 2, 1>>, <<3, 1, 1, 2>>, LongRecent, LongRecent \o <<5>>}

RecentCalls ==
    {[op |-> "init", fn |-> "add_recent_file", file_path |-> p] : p \in 1..3}
        \cup {[op |-> "init", fn |-> "add_recent_file", file_path |-> MaxRecentFiles + 3]}

\* add_recent_file(index, file_path) for the index and the path drawn
AddRecentFile ==
    /\ last.op = "init" /\ last.fn = "add_recent_file"
    /\ index' = add_recent_file(index, last.file_path)
    /\ last' = [op |-> "add_recent_file", file_path |-> last.file_path,
                before |-> Get(index, "recent_files", << >>)]
    /\ steps' = steps + 1
    /\ CallFrame

\* contents a snippet is taken from: fifteen lines with the token in the
\* fourth; three lines; no token; the token in two lines; more than
\* MaxSnippet characters without and with the token
FifteenLines ==
    <<"n", "0", "1", "\n", "n", "0", "2", "\n", "n", "0", "3", "\n", "r", "e",
    "d", "i", "s", "\n", "n", "0", "5", "\n", "n", "0", "6", "\n", "n", "0",
    "7", "\n", "n", "0", "8", "\n", "n", "0", "9", "\n", "n", "1", "0", "\n",
    "n", "1", "1", "\n", "n", "1", "2", "\n", "n", "1", "3", "\n", "n", "1",
    "4", "\n", "n", "1", "5">>
SnippetContents ==
    {FifteenLines,
     <<"a", "l", "p", "h", "a", "\n", "U", "s", "e", " ", "R", "e", "d", "i", "s", "\n", "b", "e", "t", "a">>,
     <<"n", "o", "t", "h", "i", "n", "g", " ", "h", "e", "r", "e">>,
     <<"r", "e", "d", "i", "s", " ", "a", "\n", "x", "\n", "r", "e", "d", "i", "s", " ", "b", " ", "c", "a", "c", "h", "e", "\n", "y">>,
     Repeat(<<"z">>, MaxSnippet + 50),
     <<"R", "e", "d", "i", "s", "\n">> \o Repeat(<<"z">>, MaxSnippet + 50)}

SnippetTokens == {{<<"r", "e", "d", "i", "s">>}, {<<"r", "e", "d", "i", "s">>, <<"c", "a", "c", "h", "e">>}}

SnippetCalls ==
    {[op |-> "init", fn |-> "extract_snippet", content |-> c, query_tokens |-> t] :
        c \in SnippetContents, t \in SnippetTokens}

\* _extract_snippet(content, query_tokens, max_snippet=600), as
\* find_relevant_memory calls it
ExtractSnippet ==
    /\ last.op = "init" /\ last.fn = "extract_snippet"
    /\ last' = [op |-> "extract_snippet", content |-> last.content,
                query_tokens |-> last.query_tokens,
                returned |-> extract_snippet(last.content, last.query_tokens, MaxSnippet)]
    /\ steps' = steps + 1
    /\ UNCHANGED index
    /\ CallFrame

\* the hook inputs build_snapshot_text is given: none, all three fields,
\* some of them, an empty transcript path
PacketHookInputs ==
    HookInputs
    \cup {[session_id |-> <<"a", "b", "c", "1", "2", "3">>],
          [cwd |-> <<"/", "t", "m", "p">>, transcript_path |-> << >>]}

PacketIndexes ==
    {EmptyDict} \cup {[recent_files |-> r] : r \in {<< >>, <<2, 1>>, LongRecent}}

PacketCalls ==
    {[op |-> "init", fn |-> "build_snapshot_text", hook_input |-> h] : h \in PacketHookInputs}

\* build_snapshot_text(root, index, hook_input) for the root, the index and
\* the hook input drawn
BuildSnapshotText ==
    /\ last.op = "init" /\ last.fn = "build_snapshot_text"
    /\ last' = [op |-> "build_snapshot_text", hook_input |-> last.hook_input,
                returned |-> build_snapshot_text(docs, index, last.hook_input, utc_timestamp)]
    /\ clock' = clock + 1
    /\ steps' = steps + 1
    /\ UNCHANGED <<index, shared, DEFAULT_INDEX, cfg_file, idx_file, docs, snaps, appended>>

CallInit ==
    /\ shared = {}
    /\ DEFAULT_INDEX = DefaultIndexValue
    /\ cfg_file = Missing
    /\ idx_file = Missing
    /\ snaps = NoSnaps
    /\ clock = 0
    /\ \/ docs = NoDocs /\ index = EmptyDict /\ last \in ExtractCalls
       \/ docs \in SummaryDocs /\ index = EmptyDict /\ last \in SummarizeCalls
       \/ docs = NoDocs /\ index = EmptyDict /\ last \in SnippetCalls
       \/ /\ docs = NoDocs
          /\ index \in {EmptyDict} \cup {[recent_files |-> r] : r \in RecentLists}
          /\ last \in RecentCalls
       \/ /\ docs \in {NoDocs, EnsuredDocs(NoDocs), SomeDocs, TwoDocs}
          /\ index \in PacketIndexes
          /\ last \in PacketCalls
    /\ appended = << >>
    /\ steps = 0

CallNext ==
    \/ ExtractSummary
    \/ SummarizeMemory
    \/ AddRecentFile
    \/ BuildSnapshotText
    \/ ExtractSnippet

CallSpec == CallInit /\ [][CallNext]_vars

---------------------------------------------------------------------------
(* SaveSpec: save_snapshot(root, content) step by step: its loads, the     *)
(* write of the file, the update of the loaded index, the save of the      *)
(* index and the prune.  `index` is the loaded index, last.pc the position *)
(* of the call, last.written the names of the snapshot files written so    *)
(* far or present at the start, last.dir the directory as the write left  *)
(* it.                                                                     *)

MaxSaves == 2

OldSnapshot == [name |-> Digits(0, TsWidth), content |-> <<"o", "l", "d">>]

SaveConfigs ==
    {Missing, Invalid,
     Json(JObj([snapshot |-> SnapshotSection(JInt(0), Omit)])),
     Json(JObj([snapshot |-> SnapshotSection(JInt(1), JInt(3))])),
     Json(JObj([snapshot |-> SnapshotSection(JStr("many"), Omit)])),
     Json(JObj([snapshot |-> SnapshotSection(Omit, JStr("long"))]))}

\* the snapshot directories and indexes a run starts on: nothing saved yet,
\* or one snapshot saved earlier and named by the index
SaveRoots ==
    {[snaps |-> NoSnaps, idx |-> i] : i \in {Missing, Invalid, Json(JInt(5)), StoredIndex}}
    \cup {[snaps |-> {OldSnapshot},
           idx |-> Json(JObj([version |-> 1, last_snapshot |-> RelPath(OldSnapshot.name),
                              recent_files |-> << >>,
                              events |-> <<[ts |-> OldSnapshot.name, kind |-> "snapshot",
                                            payload |-> [path |-> RelPath(OldSnapshot.name)]]>>]))]}

SaveContents == {<< >>, <<"p", "a", "c", "k", "e", "t">>}

SaveInit ==
    /\ index = JNull
    /\ shared = {}
    /\ DEFAULT_INDEX = DefaultIndexValue
    /\ cfg_file \in SaveConfigs
    /\ \E r \in SaveRoots : idx_file = r.idx /\ snaps = r.snaps
    /\ docs \in {NoDocs, SomeDocs}
    /\ clock = 1
    /\ last = [op |-> "save_snapshot", pc |-> "idle", written |-> {f.name : f \in snaps}]
    /\ appended = << >>
    /\ steps = 0

\* a plausible slip: the event is appended and last_snapshot is left as it was
SnapshotRecorded_event_only(idx, rel_path, e) == append_event(idx, e)
\* index["last_snapshot"] = rel_path; append_event(index, "snapshot", ...)
SnapshotRecorded(idx, rel_path, e) == append_event(Assign(idx, "last_snapshot", rel_path), e)

\* the position after an exception: the call is over, nothing more is done
SaveRaised == [op |-> "save_snapshot", pc |-> "raised", written |-> last.written]

\* ensure_dirs, load_config, load_index and the trim of the content
SaveBegin ==
    /\ last.pc \in {"idle", "returned", "raised"}
    /\ steps < MaxSaves
    /\ \E content \in SaveContents :
       LET cfg == load_config(ConfigEnsured)
           r == load_index(IndexEnsured, DEFAULT_INDEX)
           section == Get(cfg.value.v, "snapshot", JObj(EmptyDict))
           max_chars == Get(section.v, "max_snapshot_chars", JInt(DefaultMaxSnapshotChars))
           trimmable == ~cfg.raised /\ ~r.raised /\ IsDict(section) /\ CanSlice(max_chars)
       IN  /\ docs' = DocsEnsured
           /\ cfg_file' = ConfigEnsured
           /\ idx_file' = IndexEnsured
           /\ index' = IF cfg.raised \/ r.raised THEN index ELSE r.value
           /\ shared' = IF cfg.raised \/ r.raised THEN shared ELSE r.aliases
           /\ last' = IF trimmable
                      THEN [op |-> "save_snapshot", pc |-> "trimmed",
                            written |-> last.written,
                            trimmed |-> Slice(content, max_chars),
                            max_snapshots |-> Get(section.v, "max_snapshots",
                                                  JInt(DefaultMaxSnapshots))]
                      ELSE SaveRaised
    /\ steps' = steps + 1
    /\ UNCHANGED <<DEFAULT_INDEX, snaps, clock, appended>>

\* snap_path.write_text(trimmed) under a name made of the time
SaveWrite ==
    /\ last.pc = "trimmed"
    /\ snaps' = WriteFile(snaps, utc_timestamp, last.trimmed)
    /\ clock' = clock + 1
    /\ last' = [last EXCEPT !.pc = "written", !.written = @ \cup {utc_timestamp}]
                  @@ [name |-> utc_timestamp, dir |-> snaps']
    /\ UNCHANGED <<index, shared, DEFAULT_INDEX, cfg_file, idx_file, docs, appended, steps>>

\* the update of the loaded index; an index that is not a dict raises
SaveUpdate ==
    /\ last.pc = "written"
    /\ IF IsDict(index)
       THEN LET e == Event("snapshot", [path |-> RelPath(last.name)])
            IN  /\ index' = JObj(SnapshotRecorded(index.v, RelPath(last.name), e))
                /\ DEFAULT_INDEX' = DefaultAfterAppend(shared, index.v, e)
                /\ shared' = SharedAfterAppend(shared, index.v, e)
                /\ clock' = clock + 1
                /\ last' = [last EXCEPT !.pc = "updated"]
       ELSE /\ last' = SaveRaised
            /\ UNCHANGED <<index, DEFAULT_INDEX, shared, clock>>
    /\ UNCHANGED <<cfg_file, idx_file, docs, snaps, appended, steps>>

\* save_index(root, index)
SavePersist ==
    /\ last.pc = "updated"
    /\ idx_file' = save_json(index)
    /\ last' = [last EXCEPT !.pc = "persisted"]
    /\ UNCHANGED <<index, shared, DEFAULT_INDEX, cfg_file, docs, snaps, clock, appended, steps>>

\* _prune_snapshots(snaps, max_snapshots) and the return
SavePrune ==
    /\ last.pc = "persisted"
    /\ IF CanCompare(last.max_snapshots)
       THEN /\ snaps' = prune_snapshots(snaps, AsInt(last.max_snapshots))
            /\ last' = [op |-> "save_snapshot", pc |-> "returned", written |-> last.written,
                        name |-> last.name]
       ELSE /\ last' = SaveRaised
            /\ UNCHANGED snaps
    /\ UNCHANGED <<index, shared, DEFAULT_INDEX, cfg_file, idx_file, docs, clock, appended, steps>>

SaveNext == SaveBegin \/ SaveWrite \/ SaveUpdate \/ SavePersist \/ SavePrune

SaveSpec == SaveInit /\ [][SaveNext]_vars

---------------------------------------------------------------------------
(* HookSpec: the hook runner, runner.py main.  Every hook event is a       *)
(* process of its own that is given the event's name and the bytes of      *)
(* stdin, runs the event's handler on the root and writes to stdout.       *)

MaxHookSteps == 2

\* what stdin holds: nothing; blanks; text that is not JSON; bytes that are
\* not UTF-8; a JSON value
StdinEmpty == [kind |-> "empty", value |-> JNull]
StdinBlank == [kind |-> "blank", value |-> JNull]
StdinInvalid == [kind |-> "invalid", value |-> JNull]
StdinUndecodable == [kind |-> "undecodable", value |-> JNull]
StdinJson(j) == [kind |-> "json", value |-> j]

\* read_stdin_json(): only json.JSONDecodeError is caught, and the value
\* parsed is returned whatever its type
read_stdin_json(stdin) ==
    CASE stdin.kind \in {"empty", "blank"} -> Returned(JObj(EmptyDict))
      [] stdin.kind = "invalid" -> Returned(JObj(EmptyDict))
      [] stdin.kind = "undecodable" -> Raised
      [] stdin.kind = "json" -> Returned(stdin.value)

\* the keys of HANDLERS
HANDLERS ==
    {"session_start", "pre_compact", "post_tool_use", "subagent_start",
     "user_prompt_submit", "stop"}

\* handler(root, hook_input) for handler = HANDLERS[event]
RunHandler(event, d, c, i, dir, dflt, clk, hook_input, has_base) ==
    CASE event = "session_start" -> handle_session_start(d, c, i, dir, dflt, clk, hook_input)
      [] event = "pre_compact" -> handle_pre_compact(d, c, i, dir, dflt, clk, hook_input)
      [] event = "post_tool_use" ->
           handle_post_tool_use(d, c, i, dir, dflt, clk, hook_input, has_base)
      [] event = "subagent_start" -> handle_subagent_start(d, c, i, dir, dflt, clk, hook_input)
      [] event = "user_prompt_submit" ->
           handle_user_prompt_submit(d, c, i, dir, dflt, clk, hook_input)
      [] event = "stop" -> handle_stop(d, c, i, dir, dflt, clk, hook_input)

\* what main leaves when the handler has run: an exception of the handler is
\* caught and answered with noop(); the function returns 0
Answered(r) ==
    [exit_code |-> 0, stdout |-> IF r.raised THEN r.out \o <<NoopResponse>> ELSE r.out,
     raised |-> r.raised, files |-> r]

\* main() once stdin is read: hook_input.get raises when stdin held a JSON
\* value that is no object, outside the try, and the process ends with exit
\* code 1 and an empty stdout; an unknown event is answered with noop()
Dispatched(parsed, event, d, c, i, dir, dflt, clk, has_base) ==
    IF parsed.raised \/ ~IsDict(parsed.value)
    THEN [exit_code |-> 1, stdout |-> << >>, raised |-> FALSE,
          files |-> Handled(d, c, i, dir, clk)]
    ELSE IF event \notin HANDLERS
    THEN [exit_code |-> 0, stdout |-> <<NoopResponse>>, raised |-> FALSE,
          files |-> Handled(d, c, i, dir, clk)]
    ELSE Answered(RunHandler(event, d, c, i, dir, dflt, clk, parsed.value.v, has_base))

\* main()
main(event, stdin, d, c, i, dir, dflt, clk, has_base) ==
    Dispatched(read_stdin_json(stdin), event, d, c, i, dir, dflt, clk, has_base)

\* the roots a hook runs on: never set up; just set up; worked on, with a
\* snapshot; with decision tracking off and little to inject; with an empty
\* snapshot
WorkedIndex ==
    Json(JObj([version |-> 1, last_snapshot |-> RelPath(OldSnapshot.name),
               recent_files |-> <<2, 1>>,
               events |-> <<[ts |-> OldSnapshot.name, kind |-> "snapshot",
                             payload |-> [path |-> RelPath(OldSnapshot.name)]]>>]))
QuietConfig ==
    Json(JObj([tracking |-> JObj([track_decisions |-> JBool(FALSE)]),
               snapshot |-> JObj([max_chars_injected |-> JInt(2)])]))
HookRoots ==
    {[docs |-> NoDocs, cfg |-> Missing, idx |-> Missing, snaps |-> NoSnaps],
     [docs |-> EnsuredDocs(NoDocs), cfg |-> EnsuredConfig(Missing),
      idx |-> EnsuredIndex(Missing, DefaultIndexValue), snaps |-> NoSnaps],
     [docs |-> EnsuredDocs(SomeDocs), cfg |-> EnsuredConfig(Missing), idx |-> WorkedIndex,
      snaps |-> {OldSnapshot}],
     [docs |-> EnsuredDocs(SomeDocs), cfg |-> QuietConfig, idx |-> WorkedIndex,
      snaps |-> {OldSnapshot}],
     [docs |-> EnsuredDocs(NoDocs), cfg |-> EnsuredConfig(Missing), idx |-> WorkedIndex,
      snaps |-> {[name |-> OldSnapshot.name, content |-> << >>]}]}

\* a long message without decision wording, and a second decision
PlainMessage == Padded(<<"H", "e", "r", "e", " ", "i", "s", " ", "t", "h", "e", " ",
                         "f", "u", "n", "c", "t", "i", "o", "n">>, MinStopMessageLength)
HookStopInputs ==
    StopInputs \cup {[last_assistant_message |-> PlainMessage]}
HookToolInputs ==
    PostToolUseInputs
    \cup {[tool_name |-> "Write", tool_input |-> JObj([file_path |-> PathStr(3)])],
          [tool_name |-> "Bash", tool_input |-> JObj([command |-> JStr("ls")])]}
HookSessionInputs == {[source |-> "compact"], [source |-> "resume"], [source |-> "clear"]}

AllEvents == HANDLERS \cup {"", "unknown"}

\* the invocations: every event with no input and with a JSON list; the
\* other contents that are no JSON object; each handler with its inputs
Invocations ==
    {[event |-> e, stdin |-> s] : e \in AllEvents, s \in {StdinEmpty, StdinJson(JList(<< >>))}}
    \cup {[event |-> e, stdin |-> s] :
             e \in {"stop", "unknown"},
             s \in {StdinBlank, StdinInvalid, StdinUndecodable, StdinJson(JNull)}}
    \cup {[event |-> "post_tool_use", stdin |-> StdinJson(JObj(h))] : h \in HookToolInputs}
    \cup {[event |-> "stop", stdin |-> StdinJson(JObj(h))] : h \in HookStopInputs}
    \cup {[event |-> "session_start", stdin |-> StdinJson(JObj(h))] : h \in HookSessionInputs}
    \cup {[event |-> "subagent_start", stdin |-> StdinJson(JObj(h))] : h \in SubagentStartInputs}
    \cup {[event |-> "user_prompt_submit", stdin |-> StdinJson(JObj(h))] : h \in PromptInputs}

HookInit ==
    /\ index = EmptyDict
    /\ shared = {}
    /\ DEFAULT_INDEX = DefaultIndexValue
    /\ \E root \in HookRoots :
          /\ cfg_file = root.cfg
          /\ idx_file = root.idx
          /\ docs = root.docs
          /\ snaps = root.snaps
    /\ clock = 1
    /\ last = [op |-> "init", captured |-> {}]
    /\ appended = << >>
    /\ steps = 0

\* one process: runner.py <event> with stdin.  `before` is the root the
\* process found, `captured` the stop inputs of the processes so far that
\* added an entry to the decisions document
Main ==
    /\ steps < MaxHookSteps
    /\ \E call \in Invocations :
       \E r \in {main(call.event, call.stdin, docs, cfg_file, idx_file, snaps, DEFAULT_INDEX,
                      clock, HasBase)} :
           /\ docs' = r.files.docs
           /\ cfg_file' = r.files.cfg
           /\ idx_file' = r.files.idx
           /\ snaps' = r.files.snaps
           /\ clock' = r.files.clock
           /\ last' = [op |-> "main", event |-> call.event, stdin |-> call.stdin,
                       exit_code |-> r.exit_code, stdout |-> r.stdout, raised |-> r.raised,
                       before |-> [docs |-> docs, cfg |-> cfg_file, idx |-> idx_file,
                                   snaps |-> snaps, clock |-> clock, has_base |-> HasBase],
                       repeated |-> call \in last.captured,
                       captured |-> IF /\ call.event = "stop"
                                       /\ r.files.docs["decisions.md"]
                                              \notin {docs["decisions.md"],
                                                      EnsuredDocs(docs)["decisions.md"]}
                                    THEN last.captured \cup {call}
                                    ELSE last.captured]
           /\ steps' = steps + 1
           /\ StoreFrame

HookNext == Main

HookSpec == HookInit /\ [][HookNext]_vars

\* the snapshot section of the configuration in force, and its two limits
ConfiguredSnapshot == load_config(cfg_file).value.v.snapshot
ConfiguredMaxSnapshots == Get(ConfiguredSnapshot.v, "max_snapshots", JInt(DefaultMaxSnapshots))
ConfiguredMaxChars == Get(ConfiguredSnapshot.v, "max_snapshot_chars", JInt(DefaultMaxSnapshotChars))
OnDisk == {f.name : f \in snaps}

(* C3: after create_snapshot completes under a configuration with          *)
(* max_snapshots >= 1 and max_snapshot_chars at least the length of the    *)
(* packet header, load_index(root).last_snapshot is the root-relative path *)
(* of the snapshot just written, that file exists and its content starts   *)
(* with '# CCCM Continuity Packet'; also after earlier create_snapshot     *)
(* calls.                                                                  *)
C3_SnapshotRoundTrip ==
    (/\ last.op = "create_snapshot"
     /\ ~last.raised
     /\ ConfiguredMaxSnapshots.t = "int" /\ ConfiguredMaxSnapshots.n >= 1
     /\ ConfiguredMaxChars.t = "int" /\ ConfiguredMaxChars.n >= Len(PacketHeader))
    => LET r == load_index(idx_file, DEFAULT_INDEX) IN
       /\ ~r.raised
       /\ IsDict(r.value)
       /\ "last_snapshot" \in DOMAIN r.value.v
       /\ r.value.v.last_snapshot = last.path
       /\ \E f \in snaps :
             /\ RelPath(f.name) = last.path
             /\ StartsWith(f.content, PacketHeader)

\* the third snapshot of a run, cut to exactly the length of the header
C3_Witness ==
    /\ last.op = "create_snapshot"
    /\ ~last.raised
    /\ Len(last.created) = 3
    /\ ConfiguredMaxSnapshots = JInt(2)
    /\ ConfiguredMaxChars = JInt(24)
    /\ \E f \in snaps : f.name = last.name /\ f.content = PacketHeader

C5_NonPositiveLimitKeepsAll ==
    (/\ last.op = "create_snapshot"
     /\ ~last.raised
     /\ ConfiguredMaxSnapshots.t = "int" /\ ConfiguredMaxSnapshots.n <= 0)
    => /\ last.name \in OnDisk
       /\ OnDisk = Elems(last.created)

\* how many 'Auto-captured' entries for a summary the text holds
EntryCount(text, summary) ==
    LET body == AutoCaptured \o Strip(summary) \o <<"\n">>
    IN  Cardinality({i \in 0..(Len(text) - Len(body)) :
                        SubSeq(text, i + 1, i + Len(body)) = body})

(* C6: for any summary s, on a store whose decisions document does not yet *)
(* record s, append_decision(root, s) returns True; an immediately         *)
(* following append_decision(root, s) returns False and writes nothing,    *)
(* and the document then holds exactly one 'Auto-captured' entry for s.    *)
(* 'Does not yet record s' is taken as the code's own test: the first 100  *)
(* characters of the trimmed s do not occur in the document.               *)
C6_AppendDecisionOnce ==
    /\ (last.op = "append_decision" /\ last.fresh) => last.returned
    /\ (/\ last.op = "append_decision"
        /\ last.prev.op = "append_decision"
        /\ last.prev.summary = last.summary
        /\ last.prev.fresh)
       => /\ last.prev.returned
          /\ ~last.returned
          /\ ~last.wrote
          /\ EntryCount(docs["decisions.md"], last.summary) = 1

(* C11: a top-level key of the persisted config that is not one of the     *)
(* recognized sections (snapshot, tracking, prompt_inject, agent_budgets)  *)
(* is in the result of load_config with its persisted value.               *)
C11_UnknownKeysPassThrough ==
    (/\ last.op = "load_config"
     /\ last.file.kind = "json"
     /\ IsDict(last.file.value)
     /\ ~last.result.raised)
    => \A k \in DOMAIN last.file.value.v \ Sections :
          /\ k \in DOMAIN last.result.value.v
          /\ last.result.value.v[k] = last.file.value.v[k]

\* text, with a missing file read as no text
TextOf(doc) == IF doc = Absent THEN << >> ELSE doc

(* C12: ensure_dirs on a root where files already exist changes the        *)
(* content of none of them (documents, config.json, index.json), whatever  *)
(* they hold; and a second ensure_dirs right after it would change         *)
(* nothing at all.                                                         *)
C12_EnsureDirsIdempotent ==
    [][(last'.op = "ensure_dirs" /\ steps' # steps) =>
        /\ \A n \in DOMAIN docs : docs[n] # Absent => docs'[n] = docs[n]
        /\ cfg_file.kind # "missing" => cfg_file' = cfg_file
        /\ idx_file.kind # "missing" => idx_file' = idx_file
        /\ snaps' = snaps
        /\ EnsuredDocs(docs') = docs'
        /\ EnsuredConfig(cfg_file') = cfg_file'
        /\ EnsuredIndex(idx_file', DEFAULT_INDEX') = idx_file']_vars

\* ensure_dirs called twice in a row on a root whose decisions document has
\* been written to and whose config.json is not valid JSON
C12_Witness ==
    /\ last.op = "ensure_dirs"
    /\ last.prev = "ensure_dirs"
    /\ docs["decisions.md"] = SomeDocs["decisions.md"]
    /\ docs["glossary.md"] = HeaderOf("glossary.md")
    /\ cfg_file = Invalid

(* C19: memory_write with a doc_type that is not one of decisions,         *)
(* constraints, interfaces, glossary returns the rejection message and     *)
(* leaves the four documents, config.json and index.json as they were.     *)
C19_InvalidDocTypeChangesNothing ==
    (last.op = "memory_write" /\ ~InSeq(last.doc_type, valid_types))
    => /\ last.returned = "Invalid doc_type"
       /\ ~last.changed

(* C20: detect_decision(message) is False for every message shorter than   *)
(* 80 characters, whatever decision words it contains.                     *)
C20_ShortMessagesNotDetected ==
    (last.op = "detect_decision" /\ Len(last.message) < 80) => ~last.result

\* a message of 79 characters that holds a decision verb
C20_Witness ==
    /\ last.op = "detect_decision"
    /\ Len(last.message) = 79
    /\ HasWord(Lower(last.message), DecisionVerbs)
    /\ ~last.result

\* the snapshots search_memory reads: fewer than three have a greater name
ScannedSnaps == {f \in snaps : Cardinality({g \in snaps : NameLess(f.name, g.name)}) < 3}

\* some token of the query occurs in a document that passes the tags or in a
\* scanned snapshot
SomeTokenOccurs(query, tags) ==
    \E t \in tokenize(query) :
        \/ \E n \in DOMAIN docs :
              /\ Len(tags) = 0 \/ matches_tags(n, tags)
              /\ Contains(t, Lower(TextOf(docs[n])))
        \/ \E f \in ScannedSnaps : Contains(t, Lower(f.content))

(* C15: search_memory returns an empty list when the query is empty or     *)
(* yields no tokens, and when no query token occurs in any scanned source; *)
(* for every other query the returned list is ordered by non-increasing    *)
(* score.                                                                  *)
C15_SearchEmptyOrSorted ==
    last.op = "search_memory" =>
    /\ (last.query = << >> \/ tokenize(last.query) = {}) => last.results = << >>
    /\ ~SomeTokenOccurs(last.query, last.tags) => last.results = << >>
    /\ \A i, j \in 1..Len(last.results) :
          i < j => last.results[i].score >= last.results[j].score

\* a search whose results come in another order than the scan order, with
\* equal and different scores
C15_Witness ==
    /\ last.op = "search_memory"
    /\ last.tags = << >>
    /\ Len(last.results) = 4
    /\ [i \in 1..4 |-> last.results[i].score] = <<3, 3, 2, 1>>
    /\ last.results[3].source = MemorySource("decisions.md")

(* C16: when search_memory is called with a non-empty tags list, every     *)
(* result comes from a knowledge document whose name contains one of the   *)
(* tags (case-insensitively); no result comes from any other source.       *)
C16_TagsFilterEveryResult ==
    (last.op = "search_memory" /\ Len(last.tags) > 0) =>
    \A i \in 1..Len(last.results) :
        \E n \in DOMAIN docs :
            /\ last.results[i].source = MemorySource(n)
            /\ \E k \in 1..Len(last.tags) : Contains(Lower(last.tags[k]), DocStem(n))

(* C17: find_relevant_memory returns the empty string whenever none of the *)
(* top 3 search results has a score of at least 2 (also when the search    *)
(* returns nothing); a source scoring 0 or 1 never contributes to the      *)
(* output.                                                                 *)
C17_RelevantNeedsTwoMatches ==
    last.op = "find_relevant_memory" =>
    LET top == search_memory(docs, snaps, last.prompt, 3, << >>)
        scanned == ScannedSources(docs, snaps, << >>)
    IN  /\ (\A i \in 1..Len(top) : top[i].score < 2) => last.output = << >>
        /\ \A i \in 1..Len(scanned) :
              fast_score(tokenize(last.prompt), Lower(scanned[i].content)) < 2
              => ~Contains(<<"[">> \o scanned[i].source \o <<"]">>, last.output)

\* a prompt with one token that occurs in four sources, and room for them
C17_Witness ==
    /\ last.op = "find_relevant_memory"
    /\ last.max_chars = 2000
    /\ Len(search_memory(docs, snaps, last.prompt, 3, << >>)) = 3
    /\ \A i \in 1..3 : search_memory(docs, snaps, last.prompt, 3, << >>)[i].score = 1
    /\ last.output = << >>

(* C18: for every store, prompt and max_chars >= 0 the string returned by  *)
(* find_relevant_memory has length at most max_chars, the '[source]'       *)
(* headers and the blank-line separators between blocks counted.           *)
C18_OutputWithinMaxChars ==
    (last.op = "find_relevant_memory" /\ last.max_chars >= 0)
    => Len(last.output) <= last.max_chars

\* the index a fresh load of index.json returns
Persisted == load_index(idx_file, DEFAULT_INDEX).value.v
InitialIndex == load_index(last.initial, DEFAULT_INDEX).value.v
\* the path invocation p was asked to track
RaceFile(p) == extract_file_path(last.hook_input[p].tool_input).p
BothSaved == \A p \in Procs : last.pc[p] = "saved"
LastSaver == last.savers[Len(last.savers)]
FirstSaver == last.savers[1]

(* C14: when two invocations each run a load-index, mutate, save-index     *)
(* cycle on the same root at the same time, an interleaving is reachable   *)
(* in which both complete and the persisted index holds only one           *)
(* invocation's update.  Stated as: once both post_tool_use invocations    *)
(* have saved, if the first save fell between the last saver's load and    *)
(* its save, the persisted index is the initial index with the last        *)
(* saver's update alone (one new event, naming its file; the first         *)
(* saver's file is listed only if it was listed before or is the same      *)
(* file); otherwise it holds both updates in order.                        *)
C14_InterleavedCyclesLoseAnUpdate ==
    (last.op = "race" /\ BothSaved) =>
        LET before == InitialIndex.events
            after == Persisted.events
        IN  IF last.stale[LastSaver]
            THEN /\ Len(after) = Len(before) + 1
                 /\ SubSeq(after, 1, Len(before)) = before
                 /\ after[Len(after)].payload.file = RaceFile(LastSaver)
                 /\ Persisted.recent_files =
                        RecentAfterInsert(InitialIndex, RaceFile(LastSaver))
            ELSE /\ Len(after) = Len(before) + 2
                 /\ after[Len(after) - 1].payload.file = RaceFile(FirstSaver)
                 /\ after[Len(after)].payload.file = RaceFile(LastSaver)
                 /\ Persisted.recent_files[1] = RaceFile(LastSaver)
                 /\ InSeq(RaceFile(FirstSaver), Persisted.recent_files)

\* both invocations completed their cycle, and the first saver's file and
\* event are not in the persisted index
C14_Witness ==
    /\ last.op = "race"
    /\ BothSaved
    /\ last.stale[LastSaver]
    /\ ~InSeq(RaceFile(FirstSaver), Persisted.recent_files)
    /\ \A i \in 1..Len(Persisted.events) :
          Persisted.events[i].payload.file # RaceFile(FirstSaver)

\* a is the beginning of b
IsPrefix(a, b) == Len(a) <= Len(b) /\ SubSeq(b, 1, Len(a)) = a

(* C13: no operation (memory_write, append_decision, ensure_dirs,          *)
(* create_snapshot, any hook handler) edits, reorders or removes text of   *)
(* the constraints, interfaces and glossary documents: in every step the   *)
(* content before is a prefix of the content after, hence of the content   *)
(* at every later moment.  The decisions document likewise, except in a    *)
(* step where append_decision (called directly or by the stop handler)     *)
(* pruned it.                                                              *)
C13_DocumentsOnlyGrow ==
    [][/\ \A n \in {"constraints.md", "interfaces.md", "glossary.md"} :
             IsPrefix(TextOf(docs[n]), TextOf(docs'[n]))
       /\ \/ IsPrefix(TextOf(docs["decisions.md"]), TextOf(docs'["decisions.md"]))
          \/ (last'.op \in {"append_decision", "stop"} /\ last'.pruned)]_vars

\* memory_write has appended to a glossary that already held text without a
\* title, and that text is still at its beginning
C13_Witness ==
    /\ last.op = "memory_write"
    /\ last.doc_type = "glossary"
    /\ last.returned = "Appended"
    /\ IsPrefix(<<"t", "e", "r", "m", "s", "\n", "#", "#", " ">>, docs["glossary.md"])

\* C21: for max_chars >= 0, the text extract_decision_summary returns is at
\* most max_chars characters long
C21_SummaryWithinMaxChars ==
    (last.op = "extract_decision_summary" /\ last.max_chars >= 0)
        => Len(last.returned) <= last.max_chars
\* a message with decision lines, longer than the limit, cut to the limit
C21_Witness ==
    /\ last.op = "extract_decision_summary"
    /\ last.max_chars > 0
    /\ Len(last.returned) = last.max_chars
    /\ last.returned # Take(last.message, last.max_chars)

\* C22: for max_chars >= 0, the text summarize_memory returns is at most
\* max_chars characters long, whatever the documents hold
C22_MemoryWithinMaxChars ==
    (last.op = "summarize_memory" /\ last.max_chars >= 0)
        => Len(last.returned) <= last.max_chars
\* two documents, each within the limit, whose joined text is cut to it
C22_Witness ==
    /\ last.op = "summarize_memory"
    /\ last.max_chars > 0
    /\ Len(last.returned) = last.max_chars
    /\ Len(MemoryParts(docs, MEMORY_FILES, last.max_chars)) = 2

\* a document that is missing, blank or still its title line
Placeholder(n) == docs[n] = Absent \/ Strip(docs[n]) \in {<< >>, Strip(HeaderOf(n))}

\* C23: summarize_memory returns the empty text when every document is
\* missing, blank or still exactly its title line
C23_PlaceholdersSummarizeToNothing ==
    (/\ last.op = "summarize_memory"
     /\ last.max_chars >= 0
     /\ \A n \in Elems(MEMORY_FILES) : Placeholder(n))
        => last.returned = << >>

\* text a ends text b
IsSuffix(a, b) == Len(a) <= Len(b) /\ SubSeq(b, Len(b) - Len(a) + 1, Len(b)) = a

\* the decisions document a call of append_decision appends to, and that
\* document with the call's entry at its end, before any prune
DocumentBefore == IF last.before = Absent THEN HeaderOf("decisions.md") ELSE last.before
DocumentAppended == DocumentBefore \o last.entry

(* C24: after an append_decision that returned True the decisions document *)
(* has at most MAX_DECISIONS '## ' entries: the header, then the newest     *)
(* min(n, MAX_DECISIONS) of the n entries, the appended entry last and      *)
(* whole, and the document untouched when n <= MAX_DECISIONS.               *)
C24_PruneKeepsNewestEntries ==
    (last.op = "append_decision" /\ last.returned) =>
        LET n == Cardinality(HeadingStarts(DocumentAppended))
            doc == docs["decisions.md"]
        IN  /\ Cardinality(HeadingStarts(doc)) = Min(n, MAX_DECISIONS)
            /\ IsSuffix(Tail(last.entry), doc)
            /\ IsPrefix(HeaderOf("decisions.md"), doc)
            /\ (n <= MAX_DECISIONS => doc = DocumentAppended)

(* C25: append_decision returns False exactly when the first DedupeKeyLen   *)
(* characters of the trimmed summary occur in the decisions document the    *)
(* root holds, and then leaves that document and the index as they were;    *)
(* otherwise it returns True and the document ends with the new entry.      *)
C25_FalseExactlyOnDuplicate ==
    last.op = "append_decision" =>
        /\ last.returned = last.fresh
        /\ ~last.returned =>
               (docs["decisions.md"] = last.before /\ idx_file = last.index_before)
        /\ last.returned => IsSuffix(last.entry, docs["decisions.md"])

\* the index file holds a dict whose last_snapshot names a snapshot
NamesSnapshot == idx_file.kind = "json" /\ IsDict(idx_file.value)
                    /\ "last_snapshot" \in DOMAIN idx_file.value.v
                    /\ idx_file.value.v.last_snapshot # None
SavedIndex == idx_file.value.v
NewPath == RelPath(last.name)
OnDiskNames == {f.name : f \in snaps}

(* C26: save_snapshot writes the file, then updates the loaded index, then *)
(* saves it, then prunes: once the loaded index names the new path the     *)
(* file is on disk, and once the saved index names it the directory is not *)
(* yet pruned.  When the call returns, the saved index has last_snapshot   *)
(* equal to the new path and its last event is a 'snapshot' event with     *)
(* that path.  At every step the snapshot the saved index names has been   *)
(* written.                                                                *)
C26_SaveOrder ==
    /\ last.pc = "written" =>
           /\ last.name \in OnDiskNames
           /\ IsDict(index) => Get(index.v, "last_snapshot", None) # NewPath
    /\ last.pc = "updated" =>
           /\ last.name \in OnDiskNames
           /\ index.v.last_snapshot = NewPath
           /\ idx_file # save_json(index)
    /\ last.pc = "persisted" =>
           /\ idx_file = save_json(index)
           /\ snaps = last.dir
    /\ last.pc \in {"persisted", "returned"} =>
           /\ NamesSnapshot
           /\ SavedIndex.last_snapshot = NewPath
           /\ LET e == SavedIndex.events[Len(SavedIndex.events)]
              IN  e.kind = "snapshot" /\ e.payload.path = SavedIndex.last_snapshot
    /\ NamesSnapshot => \E n \in last.written : SavedIndex.last_snapshot = RelPath(n)
\* a call that returned after its prune removed a snapshot
C26_Witness ==
    /\ last.pc = "returned"
    /\ OnDiskNames # last.written
    /\ SavedIndex.last_snapshot = NewPath

(* C27: add_recent_file on any index, also one whose recent_files holds    *)
(* the path more than once or has more than MaxRecentFiles entries, leaves *)
(* the path exactly once in the list, at position 0, and at most           *)
(* MaxRecentFiles entries.                                                 *)
C27_EveryOccurrenceRemoved ==
    last.op = "add_recent_file" =>
        LET recent == index.recent_files
        IN  /\ recent[1] = last.file_path
            /\ Cardinality({i \in 1..Len(recent) : recent[i] = last.file_path}) = 1
            /\ Len(recent) <= MaxRecentFiles

\* the lines of a packet that start with a label
LinesWith(label) ==
    {i \in 1..Len(SplitLines(last.returned)) : StartsWith(SplitLines(last.returned)[i], label)}

(* C28: build_snapshot_text emits the Session, CWD and Transcript lines     *)
(* each only when the hook input holds the field: without session_id there  *)
(* is no Session line, without cwd no CWD line, without transcript_path no  *)
(* Transcript line.                                                         *)
C28_OptionalLinesOnlyWhenPresent ==
    last.op = "build_snapshot_text" =>
        /\ "session_id" \notin DOMAIN last.hook_input => LinesWith(SessionLabel) = {}
        /\ "cwd" \notin DOMAIN last.hook_input => LinesWith(CwdLabel) = {}
        /\ "transcript_path" \notin DOMAIN last.hook_input => LinesWith(TranscriptLabel) = {}

\* the packet built, as lines, and the first of `lines` that is `line`
PacketBuilt == SplitLines(last.returned)
FirstLine(lines, line) ==
    CHOOSE i \in 1..Len(lines) : lines[i] = line /\ \A j \in 1..(i - 1) : lines[j] # line

(* C29: the packet build_snapshot_text returns starts with the header and   *)
(* holds a recent-files section and, last, a project-memory section.  The   *)
(* recent-files section lists the first min(RecentShown, n) entries of      *)
(* recent_files in list order, or the one placeholder line when there are   *)
(* none; the memory section is summarize_memory(root, SummaryBudget), or    *)
(* the placeholder when that is empty.                                      *)
C29_PacketWellFormed ==
    last.op = "build_snapshot_text" =>
        \E lines \in {PacketBuilt} :
        LET recent == Get(index, "recent_files", << >>)
            shown == Min(RecentShown, Len(recent))
            summary == summarize_memory(docs, SummaryBudget)
        IN  /\ lines[1] = PacketHeader
            /\ \E r, m \in 2..Len(lines) :
                   /\ r < m
                   /\ lines[r] = RecentHeading
                   /\ lines[m] = MemoryHeading
            /\ \E r \in {FirstLine(lines, RecentHeading)}, m \in {FirstLine(lines, MemoryHeading)} :
                   /\ SubSeq(lines, r + 1, m - 2) =
                          IF shown = 0 THEN <<NoneTracked>>
                          ELSE [i \in 1..shown |-> <<"-", " ">> \o PathText(recent[i])]
                   /\ lines[m - 1] = << >>
                   /\ m < Len(lines)
                   /\ Join(SubSeq(lines, m + 1, Len(lines)), <<"\n">>) =
                          IF summary = << >> THEN MemoryEmpty ELSE summary
\* a packet for more than RecentShown tracked files and written documents
C29_Witness ==
    /\ last.op = "build_snapshot_text"
    /\ Len(Get(index, "recent_files", << >>)) > RecentShown
    /\ summarize_memory(docs, SummaryBudget) # << >>
    /\ MemoryEmpty \notin Elems(PacketBuilt)

\* what a search scans, in scan order; the score of the i-th source scanned;
\* the sources that score; the place in the scan of the k-th result
Scanned == ScannedSources(docs, snaps, last.tags)
ScoreAt(i) == fast_score(tokenize(last.query), Lower(Scanned[i].content))
Scoring ==
    IF tokenize(last.query) = {} THEN {}
    ELSE {i \in 1..Len(Scanned) : Scanned[i].content # << >> /\ ScoreAt(i) > 0}
PlaceOf(k) == CHOOSE i \in 1..Len(Scanned) : Scanned[i].source = last.results[k].source

(* C30: search_memory returns the first top_k of the scoring sources in     *)
(* order of descending score, equal scores in scan order: the result has    *)
(* min(top_k, number of scoring sources) elements, never more than top_k,   *)
(* each a scoring source with its score, and no source left out scores      *)
(* higher than one included or ties with one that was scanned after it.     *)
C30_FirstTopKOfStableOrder ==
    last.op = "search_memory" =>
        LET n == Len(last.results)
            places == {PlaceOf(k) : k \in 1..n}
        IN  /\ n <= last.top_k
            /\ n = Min(last.top_k, Cardinality(Scoring))
            /\ \A k \in 1..n :
                   /\ \E i \in Scoring : Scanned[i].source = last.results[k].source
                   /\ last.results[k].score = ScoreAt(PlaceOf(k))
            /\ \A k, l \in 1..n :
                   k < l => \/ ScoreAt(PlaceOf(k)) > ScoreAt(PlaceOf(l))
                            \/ /\ ScoreAt(PlaceOf(k)) = ScoreAt(PlaceOf(l))
                               /\ PlaceOf(k) < PlaceOf(l)
            /\ \A i \in Scoring \ places : \A j \in places :
                   \/ ScoreAt(i) < ScoreAt(j)
                   \/ ScoreAt(i) = ScoreAt(j) /\ j < i

\* how many of the tokens occur in the lowercased text
Hits(tokens, text) == Cardinality({t \in tokens : Contains(t, Lower(TextOf(text)))})

SnippetLines == SplitLines(last.content)
LineScore(lines, i) == Cardinality({t \in last.query_tokens : Contains(t, Lower(lines[i]))})
BestLine(lines) ==
    CHOOSE i \in 1..Len(lines) :
        /\ \A j \in 1..Len(lines) : LineScore(lines, j) <= LineScore(lines, i)
        /\ \A j \in 1..(i - 1) : LineScore(lines, j) < LineScore(lines, i)

(* C32: when some line of the content has a positive score, the snippet is  *)
(* the lines from 3 before through 8 after the earliest line with the       *)
(* highest score, clipped to the content and cut to MaxSnippet characters;  *)
(* when no line scores, it is the first MaxSnippet characters.              *)
C32_SnippetWindow ==
    last.op = "extract_snippet" =>
        \E lines \in {SnippetLines} :
        \E b \in {BestLine(lines)} :
            IF LineScore(lines, b) = 0
            THEN last.returned = Take(last.content, MaxSnippet)
            ELSE last.returned =
                     Take(Join(SubSeq(lines, Max(1, b - 3), Min(Len(lines), b + 8)), <<"\n">>),
                          MaxSnippet)


\* a first word of firsts with a word of seconds anywhere after it, line
\* breaks included
HasWordThenWordAnywhere(text, firsts, seconds) ==
    \E e \in WordEnds(text, firsts) : \E j \in WordStarts(text, seconds) : e <= j

\* the three families of decision wording, the connective anywhere later
ContainsDecisionWording(message_lower) ==
    \/ HasWord(message_lower, DecisionVerbs)
    \/ HasWordThenWordAnywhere(message_lower, DecisionTopics, DecisionReasons)
    \/ HasWordThenWordAnywhere(message_lower, DecisionPreferences, DecisionReasons)

(* C33: for every message of at least 80 characters, detect_decision is    *)
(* True exactly when the lowercased message has a decision verb, or a      *)
(* design term followed anywhere later in the message by a connective, or  *)
(* a preference term followed anywhere later in the message by one.        *)
C33_DetectedIffDecisionWording ==
    (last.op = "detect_decision" /\ Len(last.message) >= MIN_MESSAGE_LENGTH)
        => (last.result = ContainsDecisionWording(Lower(last.message)))

\* whether a line holds one of the decision keywords, in any case
HasKeyword(line) == \E kw \in DecisionKeywords : Contains(kw, Lower(line))

\* the places <<i, j>> of the context windows: i a keyword line, j a line
\* from the one before i through two after it
WindowPlaces(lines) ==
    {<<i, j>> \in (1..Len(lines)) \X (1..Len(lines)) :
        HasKeyword(lines[i]) /\ i - 1 <= j /\ j <= i + 2}

\* the order of the places: window after window, line after line
PlaceBefore(p, q) == p[1] < q[1] \/ (p[1] = q[1] /\ p[2] < q[2])

\* the lines of the context windows in order, each line at its first place
\* only
WindowLines(lines) ==
    LET places == WindowPlaces(lines)
        first == {p \in places :
                     \A q \in places : PlaceBefore(q, p) => lines[q[2]] # lines[p[2]]}
        rank == [p \in first |-> Cardinality({q \in first : PlaceBefore(q, p)})]
    IN  [k \in 1..Cardinality(first) |-> lines[(CHOOSE p \in first : rank[p] = k - 1)[2]]]

\* the summary the context windows of these lines give, or the start of the
\* raw message when no line holds a keyword
WindowSummary(lines, message, max_chars) ==
    IF \E i \in 1..Len(lines) : HasKeyword(lines[i])
    THEN Take(Join(WindowLines(lines), <<"\n">>), max_chars)
    ELSE Take(message, max_chars)

(* C34: for max_chars >= 0, extract_decision_summary returns the lines of  *)
(* the context windows (the line before through two lines after each       *)
(* keyword line) joined in order, repeated lines removed after their first *)
(* occurrence, cut to max_chars, the lines being those of the message      *)
(* stripped of leading and trailing whitespace; with no keyword line it    *)
(* returns the first max_chars characters of the raw message.              *)
C34_SummaryIsWindowsOfStrippedMessage ==
    (last.op = "extract_decision_summary" /\ last.max_chars >= 0)
        => last.returned = WindowSummary(SplitLines(Strip(last.message)),
                                         last.message, last.max_chars)
\* a message whose two keyword lines give overlapping windows with a
\* repeated line, summarized whole
C34_Witness ==
    /\ last.op = "extract_decision_summary"
    /\ last.max_chars = SummaryMaxChars
    /\ last.message = <<"b", "e", "c", "a", "u", "s", "e", " ", "x", "\n",
                        "b", "e", "c", "a", "u", "s", "e", " ", "x", "\n", "s", "o">>
    /\ last.returned = <<"b", "e", "c", "a", "u", "s", "e", " ", "x", "\n", "s", "o">>
\* the statement with the lines taken from the message as given
C34_WindowsOfRawMessage ==
    (last.op = "extract_decision_summary" /\ last.max_chars >= 0)
        => last.returned = WindowSummary(SplitLines(last.message),
                                         last.message, last.max_chars)

\* a process of HookSpec that reached the handler of this event, and the hook
\* input it was given
Invoked(event) ==
    /\ last.op = "main"
    /\ last.event = event
    /\ last.exit_code = 0
HookInput == read_stdin_json(last.stdin).value.v

\* the index a process finds when it loads the persisted one
IndexFound == load_index(last.before.idx, DefaultIndexValue).value.v

\* the persisted index is the one found plus one event of this kind at the end
OneEventAppended(kind) ==
    /\ idx_file.kind = "json"
    /\ IsDict(idx_file.value)
    /\ \E before \in {IndexFound.events} : \E after \in {idx_file.value.v.events} :
          /\ Len(after) = Len(before) + 1
          /\ SubSeq(after, 1, Len(before)) = before
          /\ after[Len(after)].kind = kind

(* C35: post_tool_use leaves the persisted index unchanged when the tool   *)
(* is not one of Write, Edit, MultiEdit, Bash or no file path can be       *)
(* extracted from the tool input; otherwise the persisted index has the    *)
(* path at the front of recent_files and exactly one more event, of kind   *)
(* 'tool'.  In every case the output is the empty JSON object.             *)
C35_PostToolUseTracksFile ==
    Invoked("post_tool_use") =>
        \E file_path \in {extract_file_path(Get(HookInput, "tool_input", JObj(EmptyDict)))} :
            /\ last.stdout = <<NoopResponse>>
            /\ IF Get(HookInput, "tool_name", "") \notin DEFAULT_TRACKED_TOOLS
                  \/ file_path = JNull
               THEN idx_file = last.before.idx
               ELSE /\ OneEventAppended("tool")
                    /\ idx_file.value.v.recent_files[1] = file_path.p
                    /\ idx_file.value.v.events[Len(idx_file.value.v.events)].payload.file
                           = file_path.p

\* the root a process found had been set up: the four documents, config.json
\* and index.json exist
Initialized ==
    /\ \A n \in DOMAIN last.before.docs : last.before.docs[n] # Absent
    /\ last.before.cfg.kind # "missing"
    /\ last.before.idx.kind # "missing"

\* tracking.track_decisions of the configuration the process found
TrackDecisions ==
    Get(Get(load_config(last.before.cfg).value.v, "tracking", JObj(EmptyDict)).v,
        "track_decisions", JBool(TRUE))

\* the message the stop hook was given, empty when there is none
LastMessage == Get(HookInput, "last_assistant_message", << >>)

(* C36: on an initialized root, stop leaves the decisions document and the *)
(* persisted index as they were whenever stop_hook_active is set, the last *)
(* assistant message is missing or shorter than 80 characters,             *)
(* tracking.track_decisions is false, or detect_decision is False for the  *)
(* message                                                                 *)
C36_StopLeavesRootWhenNotCapturing ==
    (/\ Invoked("stop")
     /\ Initialized
     /\ \/ Get(HookInput, "stop_hook_active", FALSE)
        \/ Len(LastMessage) < MinStopMessageLength
        \/ TrackDecisions = JBool(FALSE)
        \/ ~detect_decision(LastMessage))
        => /\ docs["decisions.md"] = last.before.docs["decisions.md"]
           /\ idx_file = last.before.idx
\* a decision message given on a root whose configuration turns tracking off
C36_Witness ==
    /\ Invoked("stop")
    /\ Initialized
    /\ TrackDecisions = JBool(FALSE)
    /\ ~Get(HookInput, "stop_hook_active", FALSE)
    /\ detect_decision(LastMessage)
    /\ docs = last.before.docs
    /\ idx_file = last.before.idx

\* the decisions document as ensure_dirs leaves the one the process found
DecisionsFound == EnsuredDocs(last.before.docs)["decisions.md"]

\* the stop hook added an entry to the decisions document: append_decision
\* returned True
EntryWritten == docs["decisions.md"] \notin {last.before.docs["decisions.md"], DecisionsFound}

\* the last event of the persisted index
LastEvent == idx_file.value.v.events[Len(idx_file.value.v.events)]

\* the timestamp in the heading of the document's last entry
LastEntryStamp ==
    LET doc == docs["decisions.md"]
        at == CHOOSE i \in HeadingStarts(doc) : \A j \in HeadingStarts(doc) : j <= i
    IN  SubSeq(doc, at + 3, at + 2 + TsWidth)

MaxCharsInjected ==
    Get(Get(load_config(EnsuredConfig(last.before.cfg)).value.v, "snapshot", JObj(EmptyDict)).v,
        "max_chars_injected", JInt(DefaultMaxCharsInjected)).n

\* the text of the snapshot that the index the process found names as the
\* last one, cut to max_chars_injected characters; empty when there is none
LatestSnapshotText ==
    LET named == {f \in last.before.snaps :
                     RelPath(f.name) = Get(IndexFound, "last_snapshot", None)}
    IN  IF named = {} THEN << >>
        ELSE Take((CHOOSE f \in named : TRUE).content, MaxCharsInjected)

\* the one value written to stdout is additional context for SessionStart,
\* and this is its text
SessionStartText ==
    last.stdout[1].v.hookSpecificOutput.v.additionalContext.s

(* C38: every session_start process appends exactly one event to the       *)
(* persisted index and emits the protocol text.  When source is 'compact'  *)
(* or 'resume' and the latest snapshot's text, cut to max_chars_injected   *)
(* characters, is not empty, the event's kind is 'session_start_injected'  *)
(* and the output carries that text after the protocol; otherwise the kind *)
(* is 'session_start' and the output is the protocol alone.                *)
C38_SessionStartLogsAndInjects ==
    Invoked("session_start") =>
        /\ Len(last.stdout) = 1
        /\ last.stdout[1].v.hookSpecificOutput.v.hookEventName = JStr("SessionStart")
        /\ IsPrefix(Protocol, SessionStartText)
        /\ IF /\ Get(HookInput, "source", "startup") \in {"compact", "resume"}
              /\ Len(LatestSnapshotText) > 0
           THEN /\ OneEventAppended("session_start_injected")
                /\ Len(SessionStartText) > Len(Protocol) + Len(LatestSnapshotText)
                /\ IsSuffix(LatestSnapshotText, SessionStartText)
                /\ Len(LatestSnapshotText) <= MaxCharsInjected
           ELSE /\ OneEventAppended("session_start")
                /\ SessionStartText = Protocol
\* a resumed session on a root whose snapshot is longer than what the
\* configuration lets inject
C38_Witness ==
    /\ Invoked("session_start")
    /\ Get(HookInput, "source", "startup") = "resume"
    /\ MaxCharsInjected = 2
    /\ LatestSnapshotText = <<"o", "l">>
    /\ LastEvent.kind = "session_start_injected"
    /\ IsSuffix(<<"\n", "\n", "o", "l">>, SessionStartText)

(* C39: for every event name and every stdin content, main ends with exit  *)
(* code 0 and exactly one JSON value on stdout, which is the empty object  *)
(* when the event is unknown or the handler raised                         *)
C39_MainAlwaysAnswers ==
    last.op = "main" =>
        /\ last.exit_code = 0
        /\ Len(last.stdout) = 1
        /\ (last.event \notin HANDLERS \/ last.raised) => last.stdout = <<NoopResponse>>

(* C40: under any interleaving of two concurrent post_tool_use             *)
(* invocations (each read and each write of index.json atomic), on a root  *)
(* whose index started within the limits, every index persisted has at     *)
(* most 200 events and at most 50 recent files, none listed twice          *)
C40_PersistedIndexWithinLimits ==
    (last.op = "race" /\ idx_file.kind = "json") =>
        /\ Len(idx_file.value.v.events) <= max_events
        /\ Len(idx_file.value.v.recent_files) <= MaxRecentFiles
        /\ NoDuplicates(idx_file.value.v.recent_files)
\* both invocations saved on the index that started at its limits, the last
\* saver with a path that was not listed, its load before the other's save
C40_Witness ==
    /\ last.op = "race"
    /\ BothSaved
    /\ last.stale[LastSaver]
    /\ Len(InitialIndex.events) = max_events
    /\ Len(InitialIndex.recent_files) = MaxRecentFiles
    /\ ~InSeq(RaceFile(LastSaver), InitialIndex.recent_files)
    /\ Persisted.recent_files[1] = RaceFile(LastSaver)
    /\ Len(Persisted.recent_files) = MaxRecentFiles
    /\ Len(Persisted.events) = max_events
=============================================================================
